---- MODULE Spec2Model ----
(***************************************************************************)
(* Model of the gatekeeper middleware of the bot: AntiSpamMiddleware,      *)
(* ThrottlingMiddleware, CommandThrottlingMiddleware, UserActivity-        *)
(* Middleware and ErrorHandlingMiddleware (src/bot/middleware), chained in *)
(* the order TelegramBot._setup_middleware registers them (src/bot/main.py)*)
(*                                                                         *)
(* Time is an integer number of clock ticks, Res ticks to the second, so   *)
(* that sub-second elapsed times (datetime.now() has microsecond           *)
(* resolution) and the rounding of the ":.0f" format are represented.      *)
(* Texts are sequences of Unicode code points.                             *)
(***************************************************************************)
EXTENDS Integers, Sequences, FiniteSets, TLC

(* ---------------------------------------------------------------- bounds *)

\* clock ticks per second
Res == 2

\* updates delivered in one run of the concurrent rate-limit workloads
RateEvents == 4

\* updates delivered in one run of the escalation workload
EscalationEvents == 8

\* updates delivered in one run of the spam workloads
SpamEvents == 6

\* updates delivered in one run of the cooldown workloads
CooldownEvents == 3

\* updates delivered in one run of the chain workloads
ChainEvents == 5

\* updates delivered in one run of the isolation workloads
IsolationEvents == 6

\* updates delivered in one run of the anonymous workloads
AnonymousEvents == 5

\* updates delivered in one run of the command workloads
CommandEvents == 5

\* updates delivered in one run of the fault workloads
FaultEvents == 3

\* updates delivered in one run of the content workloads
ContentEvents == 6

\* updates delivered in one run of the activity workloads
ActivityEvents == 3

\* updates delivered in one run of the ceiling workloads
CeilingEvents == 3

\* updates being processed at the same time
MaxInFlight == 2

(* ------------------------------------------------------ program constants *)

\* timedelta(minutes=1), in seconds
Window == 60

\* settings.rate_limit_per_minute
DefaultRateLimit == 30

\* AntiSpamMiddleware.spam_threshold
SpamThreshold == 5

CooldownStart == 5

CooldownHelp == 3

CooldownStats == 10

\* UserActivityMiddleware: seconds of inactivity (more than 1 hour)
InactivitySeconds == 3600

Sec(n) == n * Res

(* ------------------------------------------------------------------ texts *)

\* A text is a Python str: a sequence of Unicode code points (ord of each
\* character), "hi" being <<104, 105>>.  The tables of this section are those
\* of the Unicode database of the interpreter (unicodedata 14.0.0).

\* the code points of the ranges <<lo, hi>> of R
InRanges(R) == UNION {r[1]..r[2] : r \in R}

\* the characters str.strip() and str.split() take for whitespace when called
\* without arguments (those of str.isspace): U+0009..U+000D, U+001C..U+0020,
\* U+0085, U+00A0, U+1680, U+2000..U+200A, U+2028, U+2029, U+202F, U+205F,
\* U+3000
Whitespace ==
    InRanges({<<9, 13>>, <<28, 32>>, <<133, 133>>, <<160, 160>>,
              <<5760, 5760>>, <<8192, 8202>>, <<8232, 8233>>, <<8239, 8239>>,
              <<8287, 8287>>, <<12288, 12288>>})

\* str.lower(), the characters with a one-character lowercase of their own:
\* <<lo, hi, step, delta>> sends lo, lo + step, ..., hi to themselves + delta
\* (<<65, 90, 1, 32>> is A..Z to a..z)
LowerRuns ==
    {<<65, 90, 1, 32>>, <<192, 214, 1, 32>>, <<216, 222, 1, 32>>,
     <<256, 302, 2, 1>>, <<306, 310, 2, 1>>, <<313, 327, 2, 1>>,
     <<330, 374, 2, 1>>, <<376, 376, 1, -121>>, <<377, 381, 2, 1>>,
     <<385, 385, 1, 210>>, <<386, 388, 2, 1>>, <<390, 390, 1, 206>>,
     <<391, 391, 1, 1>>, <<393, 394, 1, 205>>, <<395, 395, 1, 1>>,
     <<398, 398, 1, 79>>, <<399, 399, 1, 202>>, <<400, 400, 1, 203>>,
     <<401, 401, 1, 1>>, <<403, 403, 1, 205>>, <<404, 404, 1, 207>>,
     <<406, 406, 1, 211>>, <<407, 407, 1, 209>>, <<408, 408, 1, 1>>,
     <<412, 412, 1, 211>>, <<413, 413, 1, 213>>, <<415, 415, 1, 214>>,
     <<416, 420, 2, 1>>, <<422, 422, 1, 218>>, <<423, 423, 1, 1>>,
     <<425, 425, 1, 218>>, <<428, 428, 1, 1>>, <<430, 430, 1, 218>>,
     <<431, 431, 1, 1>>, <<433, 434, 1, 217>>, <<435, 437, 2, 1>>,
     <<439, 439, 1, 219>>, <<440, 440, 1, 1>>, <<444, 444, 1, 1>>,
     <<452, 452, 1, 2>>, <<453, 453, 1, 1>>, <<455, 455, 1, 2>>,
     <<456, 456, 1, 1>>, <<458, 458, 1, 2>>, <<459, 475, 2, 1>>,
     <<478, 494, 2, 1>>, <<497, 497, 1, 2>>, <<498, 500, 2, 1>>,
     <<502, 502, 1, -97>>, <<503, 503, 1, -56>>, <<504, 542, 2, 1>>,
     <<544, 544, 1, -130>>, <<546, 562, 2, 1>>, <<570, 570, 1, 10795>>,
     <<571, 571, 1, 1>>, <<573, 573, 1, -163>>, <<574, 574, 1, 10792>>,
     <<577, 577, 1, 1>>, <<579, 579, 1, -195>>, <<580, 580, 1, 69>>,
     <<581, 581, 1, 71>>, <<582, 590, 2, 1>>, <<880, 882, 2, 1>>,
     <<886, 886, 1, 1>>, <<895, 895, 1, 116>>, <<902, 902, 1, 38>>,
     <<904, 906, 1, 37>>, <<908, 908, 1, 64>>, <<910, 911, 1, 63>>,
     <<913, 929, 1, 32>>, <<932, 939, 1, 32>>, <<975, 975, 1, 8>>,
     <<984, 1006, 2, 1>>, <<1012, 1012, 1, -60>>, <<1015, 1015, 1, 1>>,
     <<1017, 1017, 1, -7>>, <<1018, 1018, 1, 1>>, <<1021, 1023, 1, -130>>,
     <<1024, 1039, 1, 80>>, <<1040, 1071, 1, 32>>, <<1120, 1152, 2, 1>>,
     <<1162, 1214, 2, 1>>, <<1216, 1216, 1, 15>>, <<1217, 1229, 2, 1>>,
     <<1232, 1326, 2, 1>>, <<1329, 1366, 1, 48>>, <<4256, 4293, 1, 7264>>,
     <<4295, 4295, 1, 7264>>, <<4301, 4301, 1, 7264>>,
     <<5024, 5103, 1, 38864>>, <<5104, 5109, 1, 8>>, <<7312, 7354, 1, -3008>>,
     <<7357, 7359, 1, -3008>>, <<7680, 7828, 2, 1>>, <<7838, 7838, 1, -7615>>,
     <<7840, 7934, 2, 1>>, <<7944, 7951, 1, -8>>, <<7960, 7965, 1, -8>>,
     <<7976, 7983, 1, -8>>, <<7992, 7999, 1, -8>>, <<8008, 8013, 1, -8>>,
     <<8025, 8031, 2, -8>>, <<8040, 8047, 1, -8>>, <<8072, 8079, 1, -8>>,
     <<8088, 8095, 1, -8>>, <<8104, 8111, 1, -8>>, <<8120, 8121, 1, -8>>,
     <<8122, 8123, 1, -74>>, <<8124, 8124, 1, -9>>, <<8136, 8139, 1, -86>>,
     <<8140, 8140, 1, -9>>, <<8152, 8153, 1, -8>>, <<8154, 8155, 1, -100>>,
     <<8168, 8169, 1, -8>>, <<8170, 8171, 1, -112>>, <<8172, 8172, 1, -7>>,
     <<8184, 8185, 1, -128>>, <<8186, 8187, 1, -126>>, <<8188, 8188, 1, -9>>,
     <<8486, 8486, 1, -7517>>, <<8490, 8490, 1, -8383>>,
     <<8491, 8491, 1, -8262>>, <<8498, 8498, 1, 28>>, <<8544, 8559, 1, 16>>,
     <<8579, 8579, 1, 1>>, <<9398, 9423, 1, 26>>, <<11264, 11311, 1, 48>>,
     <<11360, 11360, 1, 1>>, <<11362, 11362, 1, -10743>>,
     <<11363, 11363, 1, -3814>>, <<11364, 11364, 1, -10727>>,
     <<11367, 11371, 2, 1>>, <<11373, 11373, 1, -10780>>,
     <<11374, 11374, 1, -10749>>, <<11375, 11375, 1, -10783>>,
     <<11376, 11376, 1, -10782>>, <<11378, 11378, 1, 1>>,
     <<11381, 11381, 1, 1>>, <<11390, 11391, 1, -10815>>,
     <<11392, 11490, 2, 1>>, <<11499, 11501, 2, 1>>, <<11506, 11506, 1, 1>>,
     <<42560, 42604, 2, 1>>, <<42624, 42650, 2, 1>>, <<42786, 42798, 2, 1>>,
     <<42802, 42862, 2, 1>>, <<42873, 42875, 2, 1>>,
     <<42877, 42877, 1, -35332>>, <<42878, 42886, 2, 1>>,
     <<42891, 42891, 1, 1>>, <<42893, 42893, 1, -42280>>,
     <<42896, 42898, 2, 1>>, <<42902, 42920, 2, 1>>,
     <<42922, 42922, 1, -42308>>, <<42923, 42923, 1, -42319>>,
     <<42924, 42924, 1, -42315>>, <<42925, 42925, 1, -42305>>,
     <<42926, 42926, 1, -42308>>, <<42928, 42928, 1, -42258>>,
     <<42929, 42929, 1, -42282>>, <<42930, 42930, 1, -42261>>,
     <<42931, 42931, 1, 928>>, <<42932, 42946, 2, 1>>,
     <<42948, 42948, 1, -48>>, <<42949, 42949, 1, -42307>>,
     <<42950, 42950, 1, -35384>>, <<42951, 42953, 2, 1>>,
     <<42960, 42960, 1, 1>>, <<42966, 42968, 2, 1>>, <<42997, 42997, 1, 1>>,
     <<65313, 65338, 1, 32>>, <<66560, 66599, 1, 40>>,
     <<66736, 66771, 1, 40>>, <<66928, 66964, 2, 39>>,
     <<66929, 66937, 2, 39>>, <<66941, 66953, 2, 39>>,
     <<66957, 66961, 2, 39>>, <<66965, 66965, 1, 39>>,
     <<68736, 68786, 1, 64>>, <<71840, 71871, 1, 32>>,
     <<93760, 93791, 1, 32>>, <<125184, 125217, 1, 34>>}

\* the characters of a run
RunOf(r) == {r[1] + k * r[3] : k \in 0..((r[2] - r[1]) \div r[3])}

\* the lowercase character of each character of LowerRuns
ToLower ==
    [c \in UNION {RunOf(r) : r \in LowerRuns} |->
        c + (CHOOSE r \in LowerRuns : c \in RunOf(r))[4]]

Lowered == DOMAIN ToLower

\* U+0130 (capital I with dot above), the one character str.lower() turns
\* into two: i and the combining dot above
CapitalIDotted == 304

LowerOfCapitalIDotted == <<105, 775>>

\* U+03A3 (capital sigma), lowered to the final form U+03C2 or to U+03C3
CapitalSigma == 931

FinalSmallSigma == 962

SmallSigma == 963

\* the characters str.lower() skips on either side of a capital sigma
\* (Case_Ignorable), as ranges
CaseIgnorableRanges ==
    {<<39, 39>>, <<46, 46>>, <<58, 58>>, <<94, 94>>, <<96, 96>>, <<168, 168>>,
     <<173, 173>>, <<175, 175>>, <<180, 180>>, <<183, 184>>, <<688, 879>>,
     <<884, 885>>, <<890, 890>>, <<900, 901>>, <<903, 903>>, <<1155, 1161>>,
     <<1369, 1369>>, <<1375, 1375>>, <<1425, 1469>>, <<1471, 1471>>,
     <<1473, 1474>>, <<1476, 1477>>, <<1479, 1479>>, <<1524, 1524>>,
     <<1536, 1541>>, <<1552, 1562>>, <<1564, 1564>>, <<1600, 1600>>,
     <<1611, 1631>>, <<1648, 1648>>, <<1750, 1757>>, <<1759, 1768>>,
     <<1770, 1773>>, <<1807, 1807>>, <<1809, 1809>>, <<1840, 1866>>,
     <<1958, 1968>>, <<2027, 2037>>, <<2042, 2042>>, <<2045, 2045>>,
     <<2070, 2093>>, <<2137, 2139>>, <<2184, 2184>>, <<2192, 2193>>,
     <<2200, 2207>>, <<2249, 2306>>, <<2362, 2362>>, <<2364, 2364>>,
     <<2369, 2376>>, <<2381, 2381>>, <<2385, 2391>>, <<2402, 2403>>,
     <<2417, 2417>>, <<2433, 2433>>, <<2492, 2492>>, <<2497, 2500>>,
     <<2509, 2509>>, <<2530, 2531>>, <<2558, 2558>>, <<2561, 2562>>,
     <<2620, 2620>>, <<2625, 2626>>, <<2631, 2632>>, <<2635, 2637>>,
     <<2641, 2641>>, <<2672, 2673>>, <<2677, 2677>>, <<2689, 2690>>,
     <<2748, 2748>>, <<2753, 2757>>, <<2759, 2760>>, <<2765, 2765>>,
     <<2786, 2787>>, <<2810, 2815>>, <<2817, 2817>>, <<2876, 2876>>,
     <<2879, 2879>>, <<2881, 2884>>, <<2893, 2893>>, <<2901, 2902>>,
     <<2914, 2915>>, <<2946, 2946>>, <<3008, 3008>>, <<3021, 3021>>,
     <<3072, 3072>>, <<3076, 3076>>, <<3132, 3132>>, <<3134, 3136>>,
     <<3142, 3144>>, <<3146, 3149>>, <<3157, 3158>>, <<3170, 3171>>,
     <<3201, 3201>>, <<3260, 3260>>, <<3263, 3263>>, <<3270, 3270>>,
     <<3276, 3277>>, <<3298, 3299>>, <<3328, 3329>>, <<3387, 3388>>,
     <<3393, 3396>>, <<3405, 3405>>, <<3426, 3427>>, <<3457, 3457>>,
     <<3530, 3530>>, <<3538, 3540>>, <<3542, 3542>>, <<3633, 3633>>,
     <<3636, 3642>>, <<3654, 3662>>, <<3761, 3761>>, <<3764, 3772>>,
     <<3782, 3782>>, <<3784, 3789>>, <<3864, 3865>>, <<3893, 3893>>,
     <<3895, 3895>>, <<3897, 3897>>, <<3953, 3966>>, <<3968, 3972>>,
     <<3974, 3975>>, <<3981, 3991>>, <<3993, 4028>>, <<4038, 4038>>,
     <<4141, 4144>>, <<4146, 4151>>, <<4153, 4154>>, <<4157, 4158>>,
     <<4184, 4185>>, <<4190, 4192>>, <<4209, 4212>>, <<4226, 4226>>,
     <<4229, 4230>>, <<4237, 4237>>, <<4253, 4253>>, <<4348, 4348>>,
     <<4957, 4959>>, <<5906, 5908>>, <<5938, 5939>>, <<5970, 5971>>,
     <<6002, 6003>>, <<6068, 6069>>, <<6071, 6077>>, <<6086, 6086>>,
     <<6089, 6099>>, <<6103, 6103>>, <<6109, 6109>>, <<6155, 6159>>,
     <<6211, 6211>>, <<6277, 6278>>, <<6313, 6313>>, <<6432, 6434>>,
     <<6439, 6440>>, <<6450, 6450>>, <<6457, 6459>>, <<6679, 6680>>,
     <<6683, 6683>>, <<6742, 6742>>, <<6744, 6750>>, <<6752, 6752>>,
     <<6754, 6754>>, <<6757, 6764>>, <<6771, 6780>>, <<6783, 6783>>,
     <<6823, 6823>>, <<6832, 6862>>, <<6912, 6915>>, <<6964, 6964>>,
     <<6966, 6970>>, <<6972, 6972>>, <<6978, 6978>>, <<7019, 7027>>,
     <<7040, 7041>>, <<7074, 7077>>, <<7080, 7081>>, <<7083, 7085>>,
     <<7142, 7142>>, <<7144, 7145>>, <<7149, 7149>>, <<7151, 7153>>,
     <<7212, 7219>>, <<7222, 7223>>, <<7288, 7293>>, <<7376, 7378>>,
     <<7380, 7392>>, <<7394, 7400>>, <<7405, 7405>>, <<7412, 7412>>,
     <<7416, 7417>>, <<7468, 7530>>, <<7544, 7544>>, <<7579, 7679>>,
     <<8125, 8125>>, <<8127, 8129>>, <<8141, 8143>>, <<8157, 8159>>,
     <<8173, 8175>>, <<8189, 8190>>, <<8203, 8207>>, <<8216, 8217>>,
     <<8228, 8228>>, <<8231, 8231>>, <<8234, 8238>>, <<8288, 8292>>,
     <<8294, 8303>>, <<8305, 8305>>, <<8319, 8319>>, <<8336, 8348>>,
     <<8400, 8432>>, <<11388, 11389>>, <<11503, 11505>>, <<11631, 11631>>,
     <<11647, 11647>>, <<11744, 11775>>, <<11823, 11823>>, <<12293, 12293>>,
     <<12330, 12333>>, <<12337, 12341>>, <<12347, 12347>>, <<12441, 12446>>,
     <<12540, 12542>>, <<40981, 40981>>, <<42232, 42237>>, <<42508, 42508>>,
     <<42607, 42610>>, <<42612, 42621>>, <<42623, 42623>>, <<42652, 42655>>,
     <<42736, 42737>>, <<42752, 42785>>, <<42864, 42864>>, <<42888, 42890>>,
     <<42994, 42996>>, <<43000, 43001>>, <<43010, 43010>>, <<43014, 43014>>,
     <<43019, 43019>>, <<43045, 43046>>, <<43052, 43052>>, <<43204, 43205>>,
     <<43232, 43249>>, <<43263, 43263>>, <<43302, 43309>>, <<43335, 43345>>,
     <<43392, 43394>>, <<43443, 43443>>, <<43446, 43449>>, <<43452, 43453>>,
     <<43471, 43471>>, <<43493, 43494>>, <<43561, 43566>>, <<43569, 43570>>,
     <<43573, 43574>>, <<43587, 43587>>, <<43596, 43596>>, <<43632, 43632>>,
     <<43644, 43644>>, <<43696, 43696>>, <<43698, 43700>>, <<43703, 43704>>,
     <<43710, 43711>>, <<43713, 43713>>, <<43741, 43741>>, <<43756, 43757>>,
     <<43763, 43764>>, <<43766, 43766>>, <<43867, 43871>>, <<43881, 43883>>,
     <<44005, 44005>>, <<44008, 44008>>, <<44013, 44013>>, <<64286, 64286>>,
     <<64434, 64450>>, <<65024, 65039>>, <<65043, 65043>>, <<65056, 65071>>,
     <<65106, 65106>>, <<65109, 65109>>, <<65279, 65279>>, <<65287, 65287>>,
     <<65294, 65294>>, <<65306, 65306>>, <<65342, 65342>>, <<65344, 65344>>,
     <<65392, 65392>>, <<65438, 65439>>, <<65507, 65507>>, <<65529, 65531>>,
     <<66045, 66045>>, <<66272, 66272>>, <<66422, 66426>>, <<67456, 67461>>,
     <<67463, 67504>>, <<67506, 67514>>, <<68097, 68099>>, <<68101, 68102>>,
     <<68108, 68111>>, <<68152, 68154>>, <<68159, 68159>>, <<68325, 68326>>,
     <<68900, 68903>>, <<69291, 69292>>, <<69446, 69456>>, <<69506, 69509>>,
     <<69633, 69633>>, <<69688, 69702>>, <<69744, 69744>>, <<69747, 69748>>,
     <<69759, 69761>>, <<69811, 69814>>, <<69817, 69818>>, <<69821, 69821>>,
     <<69826, 69826>>, <<69837, 69837>>, <<69888, 69890>>, <<69927, 69931>>,
     <<69933, 69940>>, <<70003, 70003>>, <<70016, 70017>>, <<70070, 70078>>,
     <<70089, 70092>>, <<70095, 70095>>, <<70191, 70193>>, <<70196, 70196>>,
     <<70198, 70199>>, <<70206, 70206>>, <<70367, 70367>>, <<70371, 70378>>,
     <<70400, 70401>>, <<70459, 70460>>, <<70464, 70464>>, <<70502, 70508>>,
     <<70512, 70516>>, <<70712, 70719>>, <<70722, 70724>>, <<70726, 70726>>,
     <<70750, 70750>>, <<70835, 70840>>, <<70842, 70842>>, <<70847, 70848>>,
     <<70850, 70851>>, <<71090, 71093>>, <<71100, 71101>>, <<71103, 71104>>,
     <<71132, 71133>>, <<71219, 71226>>, <<71229, 71229>>, <<71231, 71232>>,
     <<71339, 71339>>, <<71341, 71341>>, <<71344, 71349>>, <<71351, 71351>>,
     <<71453, 71455>>, <<71458, 71461>>, <<71463, 71467>>, <<71727, 71735>>,
     <<71737, 71738>>, <<71995, 71996>>, <<71998, 71998>>, <<72003, 72003>>,
     <<72148, 72151>>, <<72154, 72155>>, <<72160, 72160>>, <<72193, 72202>>,
     <<72243, 72248>>, <<72251, 72254>>, <<72263, 72263>>, <<72273, 72278>>,
     <<72281, 72283>>, <<72330, 72342>>, <<72344, 72345>>, <<72752, 72758>>,
     <<72760, 72765>>, <<72767, 72767>>, <<72850, 72871>>, <<72874, 72880>>,
     <<72882, 72883>>, <<72885, 72886>>, <<73009, 73014>>, <<73018, 73018>>,
     <<73020, 73021>>, <<73023, 73029>>, <<73031, 73031>>, <<73104, 73105>>,
     <<73109, 73109>>, <<73111, 73111>>, <<73459, 73460>>, <<78896, 78904>>,
     <<92912, 92916>>, <<92976, 92982>>, <<92992, 92995>>, <<94031, 94031>>,
     <<94095, 94111>>, <<94176, 94177>>, <<94179, 94180>>, <<110576, 110579>>,
     <<110581, 110587>>, <<110589, 110590>>, <<113821, 113822>>,
     <<113824, 113827>>, <<118528, 118573>>, <<118576, 118598>>,
     <<119143, 119145>>, <<119155, 119170>>, <<119173, 119179>>,
     <<119210, 119213>>, <<119362, 119364>>, <<121344, 121398>>,
     <<121403, 121452>>, <<121461, 121461>>, <<121476, 121476>>,
     <<121499, 121503>>, <<121505, 121519>>, <<122880, 122886>>,
     <<122888, 122904>>, <<122907, 122913>>, <<122915, 122916>>,
     <<122918, 122922>>, <<123184, 123197>>, <<123566, 123566>>,
     <<123628, 123631>>, <<125136, 125142>>, <<125252, 125259>>,
     <<127995, 127999>>, <<917505, 917505>>, <<917536, 917631>>,
     <<917760, 917999>>}

CaseIgnorable == InRanges(CaseIgnorableRanges)

\* the cased characters (Lowercase, Uppercase or titlecase) that are not
\* Case_Ignorable, as ranges
CasedRanges ==
    {<<65, 90>>, <<97, 122>>, <<170, 170>>, <<181, 181>>, <<186, 186>>,
     <<192, 214>>, <<216, 246>>, <<248, 442>>, <<444, 447>>, <<452, 659>>,
     <<661, 687>>, <<880, 883>>, <<886, 887>>, <<891, 893>>, <<895, 895>>,
     <<902, 902>>, <<904, 906>>, <<908, 908>>, <<910, 929>>, <<931, 1013>>,
     <<1015, 1153>>, <<1162, 1327>>, <<1329, 1366>>, <<1376, 1416>>,
     <<4256, 4293>>, <<4295, 4295>>, <<4301, 4301>>, <<4304, 4346>>,
     <<4349, 4351>>, <<5024, 5109>>, <<5112, 5117>>, <<7296, 7304>>,
     <<7312, 7354>>, <<7357, 7359>>, <<7424, 7467>>, <<7531, 7543>>,
     <<7545, 7578>>, <<7680, 7957>>, <<7960, 7965>>, <<7968, 8005>>,
     <<8008, 8013>>, <<8016, 8023>>, <<8025, 8025>>, <<8027, 8027>>,
     <<8029, 8029>>, <<8031, 8061>>, <<8064, 8116>>, <<8118, 8124>>,
     <<8126, 8126>>, <<8130, 8132>>, <<8134, 8140>>, <<8144, 8147>>,
     <<8150, 8155>>, <<8160, 8172>>, <<8178, 8180>>, <<8182, 8188>>,
     <<8450, 8450>>, <<8455, 8455>>, <<8458, 8467>>, <<8469, 8469>>,
     <<8473, 8477>>, <<8484, 8484>>, <<8486, 8486>>, <<8488, 8488>>,
     <<8490, 8493>>, <<8495, 8500>>, <<8505, 8505>>, <<8508, 8511>>,
     <<8517, 8521>>, <<8526, 8526>>, <<8544, 8575>>, <<8579, 8580>>,
     <<9398, 9449>>, <<11264, 11387>>, <<11390, 11492>>, <<11499, 11502>>,
     <<11506, 11507>>, <<11520, 11557>>, <<11559, 11559>>, <<11565, 11565>>,
     <<42560, 42605>>, <<42624, 42651>>, <<42786, 42863>>, <<42865, 42887>>,
     <<42891, 42894>>, <<42896, 42954>>, <<42960, 42961>>, <<42963, 42963>>,
     <<42965, 42969>>, <<42997, 42998>>, <<43002, 43002>>, <<43824, 43866>>,
     <<43872, 43880>>, <<43888, 43967>>, <<64256, 64262>>, <<64275, 64279>>,
     <<65313, 65338>>, <<65345, 65370>>, <<66560, 66639>>, <<66736, 66771>>,
     <<66776, 66811>>, <<66928, 66938>>, <<66940, 66954>>, <<66956, 66962>>,
     <<66964, 66965>>, <<66967, 66977>>, <<66979, 66993>>, <<66995, 67001>>,
     <<67003, 67004>>, <<68736, 68786>>, <<68800, 68850>>, <<71840, 71903>>,
     <<93760, 93823>>, <<119808, 119892>>, <<119894, 119964>>,
     <<119966, 119967>>, <<119970, 119970>>, <<119973, 119974>>,
     <<119977, 119980>>, <<119982, 119993>>, <<119995, 119995>>,
     <<119997, 120003>>, <<120005, 120069>>, <<120071, 120074>>,
     <<120077, 120084>>, <<120086, 120092>>, <<120094, 120121>>,
     <<120123, 120126>>, <<120128, 120132>>, <<120134, 120134>>,
     <<120138, 120144>>, <<120146, 120485>>, <<120488, 120512>>,
     <<120514, 120538>>, <<120540, 120570>>, <<120572, 120596>>,
     <<120598, 120628>>, <<120630, 120654>>, <<120656, 120686>>,
     <<120688, 120712>>, <<120714, 120744>>, <<120746, 120770>>,
     <<120772, 120779>>, <<122624, 122633>>, <<122635, 122654>>,
     <<125184, 125251>>, <<127280, 127305>>, <<127312, 127337>>,
     <<127344, 127369>>}

Cased == InRanges(CasedRanges)

\* str.lower() at the capital sigma s[i]: it is final when the nearest
\* character before it that is not Case_Ignorable is cased and the nearest one
\* after it, if any, is not
FinalSigma(s, i) ==
    LET before == {j \in 1..(i - 1) : s[j] \notin CaseIgnorable}
        after  == {j \in (i + 1)..Len(s) : s[j] \notin CaseIgnorable}
    IN  /\ before # {}
        /\ s[CHOOSE j \in before : \A k \in before : k <= j] \in Cased
        /\ \/ after = {}
           \/ s[CHOOSE j \in after : \A k \in after : j <= k] \notin Cased

\* str.lower() on the character s[i]: the characters it becomes
LowerChar(s, i) ==
    IF s[i] = CapitalSigma
    THEN IF FinalSigma(s, i) THEN <<FinalSmallSigma>> ELSE <<SmallSigma>>
    ELSE IF s[i] = CapitalIDotted THEN LowerOfCapitalIDotted
    ELSE IF s[i] \in Lowered THEN <<ToLower[s[i]]>>
    ELSE <<s[i]>>

RECURSIVE LowerFrom(_, _)
LowerFrom(s, i) ==
    IF i > Len(s) THEN <<>> ELSE LowerChar(s, i) \o LowerFrom(s, i + 1)

\* str.lower()
Lower(s) == LowerFrom(s, 1)

\* str.strip(): leading and trailing whitespace removed
Strip(s) ==
    LET idx == {i \in 1..Len(s) : s[i] \notin Whitespace}
    IN  IF idx = {} THEN <<>>
        ELSE LET lo == CHOOSE i \in idx : \A j \in idx : i <= j
                 hi == CHOOSE i \in idx : \A j \in idx : j <= i
             IN  SubSeq(s, lo, hi)

\* str.split()[0]: the first whitespace-delimited token (s holds one)
FirstToken(s) ==
    LET idx == {i \in 1..Len(s) : s[i] \notin Whitespace}
        lo  == CHOOSE i \in idx : \A j \in idx : i <= j
        ends == {i \in lo..Len(s) : i = Len(s) \/ s[i + 1] \in Whitespace}
        hi  == CHOOSE i \in ends : \A j \in ends : i <= j
    IN  SubSeq(s, lo, hi)

\* str.startswith('/')
StartsWithSlash(s) == Len(s) >= 1 /\ s[1] = 47

\* no user: data.get("event_from_user") is None
None == "None"

\* An optional value is a sequence of length 0 (None) or 1 (the value).
Nothing == <<>>

Some(v) == <<v>>

\* truth value of Message.text: None and "" are false
HasText(t) == t # Nothing /\ t[1] # <<>>

\* "/start"
CmdStart == <<47, 115, 116, 97, 114, 116>>

\* "/help"
CmdHelp == <<47, 104, 101, 108, 112>>

\* "/stats"
CmdStats == <<47, 115, 116, 97, 116, 115>>

\* "/about"
CmdAbout == <<47, 97, 98, 111, 117, 116>>

\* mutant: a command more in the table
command_cooldownsWithAbout ==
    (CmdStart :> CooldownStart) @@ (CmdHelp :> CooldownHelp) @@ (CmdStats :> CooldownStats)
        @@ (CmdAbout :> CooldownStart)

\* CommandThrottlingMiddleware.command_cooldowns, seconds
command_cooldowns ==
    (CmdStart :> CooldownStart) @@ (CmdHelp :> CooldownHelp) @@ (CmdStats :> CooldownStats)

(* ------------------------------------------------------------------ state *)

VARIABLES
    rate_limit,            \* ThrottlingMiddleware.rate_limit
    user_timestamps,       \* ThrottlingMiddleware.user_timestamps
    user_warnings,         \* ThrottlingMiddleware.user_warnings
    user_last_command,     \* CommandThrottlingMiddleware.user_last_command
    user_message_history,  \* AntiSpamMiddleware.user_message_history
    user_last_activity,    \* UserActivityMiddleware.user_last_activity
    now,                   \* the clock read by datetime.now(), in ticks
    updates,               \* the updates delivered so far, each with its progress
    rate_log,              \* per user, the rate checks made, in order
    workload               \* what the environment may deliver in this run

vars == <<rate_limit, user_timestamps, user_warnings, user_last_command,
          user_message_history, user_last_activity, now, updates, rate_log,
          workload>>

mw == <<user_timestamps, user_warnings, user_last_command,
        user_message_history, user_last_activity>>

Users == {"A", "B"}

\* what a per-user map can be indexed with: a defaultdict takes any key
Keys == Users \cup {None}

\* mutant: the test for a missing user forgotten
NoUserNever(u) == FALSE

\* "if not user": the update carries no user
NoUser(u) == u.user = None

\* mutant: every user filed under one key
UserIdShared(u) == "A"

\* user_id = user.id
UserId(u) == u.user

\* mutant: the gatekeepers registered rate check first, spam check last
middlewareRateFirst == <<"Throttling", "CommandThrottling", "AntiSpam", "UserActivity">>

\* TelegramBot._setup_middleware: the gatekeepers in registration order
\* (LoggingMiddleware and ErrorHandlingMiddleware wrap them)
middleware == <<"AntiSpam", "Throttling", "CommandThrottling", "UserActivity">>

\* where an update goes when the stage at position i calls handler(event, data)
CallNext(stage) ==
    LET i == CHOOSE k \in 1..Len(middleware) : middleware[k] = stage
    IN  IF i < Len(middleware) THEN middleware[i + 1] ELSE "handler"

\* ThrottlingMiddleware.__init__: rate_limit or settings.rate_limit_per_minute
InitRateLimit(arg) ==
    IF arg = Nothing \/ arg[1] = 0 THEN DefaultRateLimit ELSE arg[1]

\* hasattr(event, 'message') and event.message
HasMessage(u) == u.kind = "message"

\* hasattr(event, 'callback_query') and event.callback_query
HasCallback(u) == u.kind = "callback_query"

\* list.count
Count(s, x) == Cardinality({i \in 1..Len(s) : s[i] = x})

InFlight == {e \in 1..Len(updates) : updates[e].pc \notin {"done", "raised"}}

\* mutant: the event loop may switch tasks at any await, also between two
\* middlewares
RunningSuspended == {}

\* The updates whose task is executing gatekeeper code. The tasks run on one
\* event loop: a task runs until it awaits I/O (an answer being sent, the
\* protected handler), and "await handler(event, data)" enters the next
\* middleware without suspending.
Running == {e \in 1..Len(updates) : \E k \in 1..Len(middleware) : updates[e].pc = middleware[k]}

\* one stage evaluation, as noted on the update
Step(stage, verdict, n) == [stage |-> stage, verdict |-> verdict, at |-> now, n |-> n]

\* a response handed to the sender
Response(via, what, n) == [via |-> via, what |-> what, n |-> n]

\* the stage passes the update on: return await handler(event, data)
Pass(e, stage, verdict) ==
    updates' = [updates EXCEPT ![e].pc = CallNext(stage),
                               ![e].path = Append(@, Step(stage, verdict, 0))]

\* mutant: the stage answers and, the return missing, goes on to the handler
DeniedFallsThrough(u, stage, n, answer) ==
    [u EXCEPT !.pc = CallNext(stage),
              !.path = Append(@, Step(stage, "deny", n)),
              !.pending = answer]

\* the stage answers, if it has a way to, and returns None without calling
\* the handler: await ...answer(...); return None
Denied(u, stage, n, answer) ==
    [u EXCEPT !.pc = IF answer = Nothing THEN "done" ELSE "answer",
              !.path = Append(@, Step(stage, "deny", n)),
              !.pending = answer]

Deny(e, stage, n, answer) ==
    updates' = [updates EXCEPT ![e] = Denied(updates[e], stage, n, answer)]

(* ---------------------------------------------------------------- actions *)

\* the dispatcher hands an update to the middleware chain
Arrive(user, kind, text) ==
    /\ Len(updates) < workload.events
    /\ Cardinality(InFlight) < workload.inflight
    /\ Running = {}
    /\ <<user, kind, text>> \in workload.inputs
    /\ updates' = Append(updates,
          [user |-> user, kind |-> kind, text |-> text, pc |-> middleware[1],
           path |-> <<>>, pending |-> Nothing, sent |-> <<>>, message |-> Nothing,
           handled |-> 0, returned |-> FALSE])
    /\ UNCHANGED <<rate_limit, mw, now, rate_log, workload>>

\* time passes: the clock moves on to a later instant
Tick(t) ==
    /\ t \in workload.instants
    /\ t > now
    /\ Running = {}
    /\ now' = t
    /\ UNCHANGED <<rate_limit, mw, updates, rate_log, workload>>

\* mutant: nothing is removed
CleanOldTimestampsKeepsAll(timestamps, t) == timestamps

\* mutant: an instant exactly one minute old is kept
CleanOldTimestampsInclusive(timestamps, t) ==
    LET one_minute_ago == t - Sec(Window)
        Recent(ts) == ts >= one_minute_ago
    IN  SelectSeq(timestamps, Recent)

\* ThrottlingMiddleware._clean_old_timestamps: the instants kept at time t
CleanOldTimestamps(timestamps, t) ==
    LET one_minute_ago == t - Sec(Window)
        Recent(ts) == ts > one_minute_ago
    IN  SelectSeq(timestamps, Recent)

\* mutant: one update more than the ceiling gets through
RateLimitedOffByOne(timestamps, limit) == Len(timestamps) > limit

\* ThrottlingMiddleware.__call__: the test that rejects the update
RateLimited(timestamps, limit) == Len(timestamps) >= limit

\* mutant: half the ceiling taken with integer division (rate_limit // 2)
BehavingIntegerHalf(timestamps, limit) == Len(timestamps) < limit \div 2

\* ThrottlingMiddleware.__call__: the test that resets the warnings
\* (len(...) < rate_limit / 2, a float division)
Behaving(timestamps, limit) == 2 * Len(timestamps) < limit

\* mutant: the tier chosen from the count before this violation
WarningMessageCountBefore(warnings) ==
    IF warnings - 1 = 1 THEN [what |-> "Soft", n |-> 0]
    ELSE IF warnings - 1 = 2 THEN [what |-> "Hard", n |-> 0]
    ELSE [what |-> "Blocked", n |-> warnings - 1]

\* ThrottlingMiddleware._handle_rate_limit: the message prepared for a count
WarningMessage(warnings) ==
    IF warnings = 1 THEN [what |-> "Soft", n |-> 0]
    ELSE IF warnings = 2 THEN [what |-> "Hard", n |-> 0]
    ELSE [what |-> "Blocked", n |-> warnings]

\* mutant: a violation counted twice
CountViolationTwice(warnings) == warnings + 2

\* ThrottlingMiddleware._handle_rate_limit: the count after this violation
CountViolation(warnings) == warnings + 1

\* mutant: the rejected attempt is counted in the window
WindowAfterDenialCounted(cleaned, t) == Append(cleaned, t)

\* ThrottlingMiddleware.__call__: the window a rejected update leaves, the
\* return coming before the append
WindowAfterDenial(cleaned, t) == cleaned

\* one rate check, as noted in rate_log
RateEntry(verdict, message, timestamps, warnings) ==
    [at |-> now, verdict |-> verdict, what |-> message.what, n |-> message.n,
     size |-> Len(timestamps), warnings |-> warnings]

\* ThrottlingMiddleware.__call__
Throttling(e) ==
    /\ e \in 1..Len(updates)
    /\ updates[e].pc = "Throttling"
    /\ LET u == updates[e]
           user_id == UserId(u)
       IN  IF NoUser(u)
           THEN /\ Pass(e, "Throttling", "skip")
                /\ UNCHANGED <<user_timestamps, user_warnings, rate_log>>
           ELSE LET cleaned == CleanOldTimestamps(user_timestamps[user_id], now)
                IN  IF RateLimited(cleaned, rate_limit)
                    THEN LET warnings == CountViolation(user_warnings[user_id])
                             message == WarningMessage(warnings)
                             answer ==
                                 IF HasMessage(u)
                                 THEN Some(Response("message.answer", message.what, message.n))
                                 ELSE IF HasCallback(u)
                                 THEN Some(Response("callback_query.answer", "TooManyRequests", 0))
                                 ELSE Nothing
                         IN  /\ user_timestamps' = [user_timestamps EXCEPT ![user_id] =
                                    WindowAfterDenial(cleaned, now)]
                             /\ user_warnings' = [user_warnings EXCEPT ![user_id] = warnings]
                             /\ rate_log' = [rate_log EXCEPT ![user_id] =
                                    Append(@, RateEntry("deny", message,
                                                        WindowAfterDenial(cleaned, now), warnings))]
                             /\ updates' = [updates EXCEPT ![e] =
                                    [Denied(u, "Throttling", warnings, answer)
                                        EXCEPT !.message = Some(message)]]
                    ELSE LET added == Append(cleaned, now)
                             warnings == IF Behaving(added, rate_limit)
                                         THEN 0 ELSE user_warnings[user_id]
                         IN  /\ user_timestamps' = [user_timestamps EXCEPT ![user_id] = added]
                             /\ user_warnings' = [user_warnings EXCEPT ![user_id] = warnings]
                             /\ rate_log' = [rate_log EXCEPT ![user_id] =
                                    Append(@, RateEntry("pass", [what |-> "", n |-> 0],
                                                        added, warnings))]
                             /\ Pass(e, "Throttling", "pass")
    /\ UNCHANGED <<rate_limit, user_last_command, user_message_history,
                   user_last_activity, now, workload>>

\* the ":.0f" format of a number of ticks as seconds: to the nearest integer,
\* a tie to the even one
Format0f(ticks) ==
    LET q == ticks \div Res
        r == ticks % Res
    IN  IF 2 * r < Res THEN q
        ELSE IF 2 * r > Res THEN q + 1
        ELSE IF q % 2 = 0 THEN q ELSE q + 1

\* CommandThrottlingMiddleware.__call__: the command of a text
CommandOf(text) == Lower(FirstToken(text))

\* mutant: a use exactly the cooldown after the last one is still denied
OnCooldownInclusive(time_passed, cooldown) == time_passed <= cooldown

\* CommandThrottlingMiddleware.__call__: time_passed < cooldown
OnCooldown(time_passed, cooldown) == time_passed < cooldown

\* CommandThrottlingMiddleware.__call__: remaining = cooldown - time_passed
Remaining(time_passed, cooldown) == cooldown - time_passed

\* mutant: the last usage written before the cooldown is tested
UsageAfterDenialRecorded(usage, command, t) == (command :> t) @@ usage

\* CommandThrottlingMiddleware.__call__: the usages of a user after a denied
\* use, the return coming before the update of the last usage
UsageAfterDenial(usage, command, t) == usage

\* mutant: one last usage for all the commands of a user
UsageAfterUseOfAny(usage, command, t) == [c \in DOMAIN usage \cup {command} |-> t]

\* CommandThrottlingMiddleware.__call__: the usages of a user after an
\* allowed use
UsageAfterUse(usage, command, t) == (command :> t) @@ usage

\* CommandThrottlingMiddleware.__call__
CommandThrottling(e) ==
    /\ e \in 1..Len(updates)
    /\ updates[e].pc = "CommandThrottling"
    /\ LET u == updates[e]
           user_id == UserId(u)
       IN  IF ~(HasMessage(u) /\ HasText(u.text) /\ StartsWithSlash(u.text[1]))
           THEN Pass(e, "CommandThrottling", "skip") /\ UNCHANGED user_last_command
           ELSE IF NoUser(u)
           THEN Pass(e, "CommandThrottling", "skip") /\ UNCHANGED user_last_command
           ELSE IF CommandOf(u.text[1]) \notin DOMAIN command_cooldowns
           THEN Pass(e, "CommandThrottling", "skip") /\ UNCHANGED user_last_command
           ELSE LET command == CommandOf(u.text[1])
                    cooldown == Sec(command_cooldowns[command])
                    used == command \in DOMAIN user_last_command[user_id]
                    time_passed == now - user_last_command[user_id][command]
                IN  IF used /\ OnCooldown(time_passed, cooldown)
                    THEN LET remaining == Remaining(time_passed, cooldown)
                         IN  /\ Deny(e, "CommandThrottling", remaining,
                                     Some(Response("message.answer", "Cooldown",
                                                   Format0f(remaining))))
                             /\ user_last_command' = [user_last_command EXCEPT
                                    ![user_id] = UsageAfterDenial(@, command, now)]
                    ELSE /\ user_last_command' = [user_last_command EXCEPT
                                    ![user_id] = UsageAfterUse(@, command, now)]
                         /\ Pass(e, "CommandThrottling", "pass")
    /\ UNCHANGED <<rate_limit, user_timestamps, user_warnings, user_message_history,
                   user_last_activity, now, rate_log, workload>>

\* mutant: the case of the letters kept
NormalizeKeepsCase(text) == Strip(text)

\* AntiSpamMiddleware.__call__: the text compared
Normalize(text) == Strip(Lower(text))

\* mutant: no entry is ever removed
CleanOldMessagesKeepsAll(history, t) == history

\* AntiSpamMiddleware.__call__: the history kept at time t
CleanOldMessages(history, t) ==
    LET one_minute_ago == t - Sec(Window)
        Recent(entry) == entry[2] > one_minute_ago
    IN  SelectSeq(history, Recent)

\* mutant: the count compared with spam_threshold itself
IsSpamAtThreshold(history, message_text) ==
    LET recent_messages == [i \in 1..Len(history) |-> history[i][1]]
    IN  Count(recent_messages, message_text) >= SpamThreshold

\* AntiSpamMiddleware.__call__: recent_messages.count(message_text) >= spam_threshold - 1
IsSpam(history, message_text) ==
    LET recent_messages == [i \in 1..Len(history) |-> history[i][1]]
    IN  Count(recent_messages, message_text) >= SpamThreshold - 1

\* mutant: the message filed before it is counted
HistoryAfterDenialFiled(cleaned, message_text, t) == Append(cleaned, <<message_text, t>>)

\* AntiSpamMiddleware.__call__: the history a message rejected as spam leaves,
\* the return coming before the append
HistoryAfterDenial(cleaned, message_text, t) == cleaned

\* AntiSpamMiddleware.__call__
AntiSpam(e) ==
    /\ e \in 1..Len(updates)
    /\ updates[e].pc = "AntiSpam"
    /\ LET u == updates[e]
           user_id == UserId(u)
       IN  IF ~(HasMessage(u) /\ HasText(u.text))
           THEN Pass(e, "AntiSpam", "skip") /\ UNCHANGED user_message_history
           ELSE IF NoUser(u)
           THEN Pass(e, "AntiSpam", "skip") /\ UNCHANGED user_message_history
           ELSE LET message_text == Normalize(u.text[1])
                    cleaned == CleanOldMessages(user_message_history[user_id], now)
                IN  IF IsSpam(cleaned, message_text)
                    THEN /\ user_message_history' = [user_message_history EXCEPT
                                ![user_id] = HistoryAfterDenial(cleaned, message_text, now)]
                         /\ Deny(e, "AntiSpam", 0, Some(Response("message.answer", "Spam", 0)))
                    ELSE /\ user_message_history' = [user_message_history EXCEPT
                                ![user_id] = Append(cleaned, <<message_text, now>>)]
                         /\ Pass(e, "AntiSpam", "pass")
    /\ UNCHANGED <<rate_limit, user_timestamps, user_warnings, user_last_command,
                   user_last_activity, now, rate_log, workload>>

\* UserActivityMiddleware.__call__: the test for a returning user
Returning(time_since_last) == time_since_last > Sec(InactivitySeconds)

\* UserActivityMiddleware.__call__
UserActivity(e) ==
    /\ e \in 1..Len(updates)
    /\ updates[e].pc = "UserActivity"
    /\ LET u == updates[e]
           user_id == UserId(u)
       IN  IF NoUser(u)
           THEN Pass(e, "UserActivity", "skip") /\ UNCHANGED user_last_activity
           ELSE LET activity == (user_id :> now) @@ user_last_activity
                    time_since_last == now - activity[user_id]
                IN  /\ user_last_activity' = activity
                    /\ updates' = [updates EXCEPT
                          ![e].pc = CallNext("UserActivity"),
                          ![e].path = Append(@, Step("UserActivity", "pass", 0)),
                          ![e].returned = Returning(time_since_last)]
    /\ UNCHANGED <<rate_limit, user_timestamps, user_warnings, user_last_command,
                   user_message_history, now, rate_log, workload>>

\* mutant: the error swallowed without a word to the user
RaisedSilently(u) == [u EXCEPT !.pc = "raised"]

\* ErrorHandlingMiddleware.__call__, the except branch: an exception raised
\* below it in the chain is answered where the update has a message or a
\* callback query, then raised again
Raised(u) ==
    IF HasMessage(u)
    THEN [u EXCEPT !.pc = "error_answer",
                   !.pending = Some(Response("message.answer", "Error", 0))]
    ELSE IF HasCallback(u)
    THEN [u EXCEPT !.pc = "error_answer",
                   !.pending = Some(Response("callback_query.answer", "Error", 0))]
    ELSE [u EXCEPT !.pc = "raised"]

\* the protected handler runs; when it raises, ErrorHandlingMiddleware answers
\* and raises again, and LoggingMiddleware logs and raises again
Handler(e, outcome) ==
    /\ e \in 1..Len(updates)
    /\ updates[e].pc = "handler"
    /\ Running = {}
    /\ outcome \in workload.outcomes
    /\ LET u == [updates[e] EXCEPT !.handled = @ + 1]
       IN  updates' = [updates EXCEPT ![e] =
              IF outcome = "ok" THEN [u EXCEPT !.pc = "done"] ELSE Raised(u)]
    /\ UNCHANGED <<rate_limit, mw, now, rate_log, workload>>

\* an exception leaves a gatekeeper before it has called the next handler:
\* the stages between it and ErrorHandlingMiddleware hold no try, so the
\* except branch of ErrorHandlingMiddleware is the first to see it
Faulted(u, stage) == Raised([u EXCEPT !.path = Append(@, Step(stage, "fault", 0))])

\* a gatekeeper stage fails on an internal error while it evaluates an update
Fault(e) ==
    /\ e \in 1..Len(updates)
    /\ updates[e].pc \in {"AntiSpam", "Throttling", "CommandThrottling"}
    /\ updates' = [updates EXCEPT ![e] = Faulted(updates[e], updates[e].pc)]
    /\ UNCHANGED <<rate_limit, mw, now, rate_log, workload>>

\* mutant: the tier text chosen once the sender is free, from the count the
\* user has by then
DeliveredLate(u, warnings) ==
    IF u.pending[1].what \in {"Soft", "Hard", "Blocked"}
    THEN Response(u.pending[1].via, WarningMessage(warnings).what, WarningMessage(warnings).n)
    ELSE u.pending[1]

\* the answer that goes out for update u while the counter of its user stands
\* at warnings: the text was built from locals before the await
Delivered(u, warnings) == u.pending[1]

\* the sender delivers the pending answer and the awaiting middleware resumes:
\* a denying gatekeeper returns None, ErrorHandlingMiddleware raises again
Answered(e) ==
    /\ e \in 1..Len(updates)
    /\ updates[e].pc \in {"answer", "error_answer"}
    /\ Running = {}
    /\ updates' = [updates EXCEPT
          ![e].pc = IF @ = "answer" THEN "done" ELSE "raised",
          ![e].sent = Append(@, Delivered(updates[e], user_warnings[UserId(updates[e])])),
          ![e].pending = Nothing]
    /\ UNCHANGED <<rate_limit, mw, now, rate_log, workload>>

(* --------------------------------------------------------- specifications *)

Kinds == {"message", "callback_query", "other"}

\* the state after construction, for a workload w
InitWith(w) ==
    /\ workload = w
    /\ rate_limit = InitRateLimit(w.rate_limit)
    /\ user_timestamps = [u \in Keys |-> <<>>]
    /\ user_warnings = [u \in Keys |-> 0]
    /\ user_last_command = [u \in Keys |-> <<>>]
    /\ user_message_history = [u \in Keys |-> <<>>]
    /\ user_last_activity = <<>>
    /\ now = 0
    /\ updates = <<>>
    /\ rate_log = [u \in Keys |-> <<>>]

Next ==
    \/ \E user \in Users \cup {None}, kind \in Kinds,
          text \in {i[3] : i \in workload.inputs} : Arrive(user, kind, text)
    \/ \E t \in workload.instants : Tick(t)
    \/ \E e \in 1..Len(updates) : AntiSpam(e)
    \/ \E e \in 1..Len(updates) : Throttling(e)
    \/ \E e \in 1..Len(updates) : CommandThrottling(e)
    \/ \E e \in 1..Len(updates) : UserActivity(e)
    \/ \E e \in 1..Len(updates), outcome \in {"ok", "raise"} : Handler(e, outcome)
    \/ \E e \in 1..Len(updates) : Answered(e)

\* "hi"
TextHi == <<104, 105>>

\* Rate-limit workloads. One user sends messages without text (a photo) and
\* callback queries, which the spam and cooldown checks let through.
\* Concurrent: a limiter constructed with a ceiling of 1, 2 or 3, two updates
\* in flight. Escalation: a ceiling of 3 and enough messages, one at a time,
\* to be blocked and admitted again.
RateWorkloads ==
    {[rate_limit |-> Some(c),
      inputs |-> {<<"A", "message", Nothing>>, <<"A", "callback_query", Nothing>>},
      instants |-> {Sec(1), Sec(Window) - 1, Sec(Window), Sec(Window + 1)},
      outcomes |-> {"ok"},
      events |-> RateEvents,
      inflight |-> MaxInFlight] : c \in 1..3}
    \cup
    {[rate_limit |-> Some(3),
      inputs |-> {<<"A", "message", Nothing>>},
      instants |-> {Sec(1), Sec(2), Sec(3), Sec(Window + 1), Sec(2 * Window + 2)},
      outcomes |-> {"ok"},
      events |-> EscalationEvents,
      inflight |-> 1]}

InitRate == \E w \in RateWorkloads : InitWith(w)

SpecRate == InitRate /\ [][Next]_vars

\* " HI "
TextHiLoud == <<32, 72, 73, 32>>

\* "/Start x"
TextStartLoud == <<47, 83, 116, 97, 114, 116, 32, 120>>

\* Spam workloads: one user sends "hi" and " HI ", the same content once
\* normalized, to a limiter constructed without a ceiling (the default).
SpamWorkloads ==
    {[rate_limit |-> Nothing,
      inputs |-> {<<"A", "message", Some(TextHi)>>, <<"A", "message", Some(TextHiLoud)>>},
      instants |-> {Sec(1), Sec(Window) - 1, Sec(Window), Sec(Window + 1)},
      outcomes |-> {"ok"},
      events |-> SpamEvents,
      inflight |-> 1]}

InitSpam == \E w \in SpamWorkloads : InitWith(w)

SpecSpam == InitSpam /\ [][Next]_vars

\* Cooldown workloads: one user sends /start, "/Start x" and /help at
\* instants around the cooldowns of 3 and 5 seconds.
CooldownWorkloads ==
    {[rate_limit |-> Nothing,
      inputs |-> {<<"A", "message", Some(CmdStart)>>, <<"A", "message", Some(TextStartLoud)>>,
                  <<"A", "message", Some(CmdHelp)>>},
      instants |-> {Sec(CooldownHelp) - 1, Sec(CooldownHelp), Sec(CooldownStart) - 1,
                    Sec(CooldownStart)},
      outcomes |-> {"ok"},
      events |-> CooldownEvents,
      inflight |-> MaxInFlight]}

InitCooldown == \E w \in CooldownWorkloads : InitWith(w)

SpecCooldown == InitCooldown /\ [][Next]_vars

\* Chain workloads: one user sends texts and commands to a
\* limiter with a ceiling of 2, and the protected handler may raise.
ChainWorkloads ==
    {[rate_limit |-> Some(2),
      inputs |-> {<<"A", "message", Some(TextHi)>>, <<"A", "message", Some(CmdStart)>>},
      instants |-> {Sec(Window + 1)},
      outcomes |-> {"ok", "raise"},
      events |-> ChainEvents,
      inflight |-> MaxInFlight]}

InitChain == \E w \in ChainWorkloads : InitWith(w)

SpecChain == InitChain /\ [][Next]_vars

\* Isolation workloads: users A and B both send /start and taps, with two
\* updates in flight, to a limiter with ceiling 2.
IsolationWorkloads ==
    {[rate_limit |-> Some(2),
      inputs |-> {<<"A", "message", Some(CmdStart)>>, <<"B", "message", Some(CmdStart)>>,
                  <<"B", "callback_query", Nothing>>},
      instants |-> {Sec(Window + 1)},
      outcomes |-> {"ok"},
      events |-> IsolationEvents,
      inflight |-> MaxInFlight]}

InitIsolation == \E w \in IsolationWorkloads : InitWith(w)

SpecIsolation == InitIsolation /\ [][Next]_vars

\* Anonymous workloads: updates that carry no user, a message and a tap, next
\* to the messages of user A, to a limiter with ceiling 1.
AnonymousWorkloads ==
    {[rate_limit |-> Some(1),
      inputs |-> {<<None, "message", Some(CmdStart)>>, <<None, "callback_query", Nothing>>,
                  <<"A", "message", Some(CmdStart)>>},
      instants |-> {Sec(1)},
      outcomes |-> {"ok"},
      events |-> AnonymousEvents,
      inflight |-> MaxInFlight]}

InitAnonymous == \E w \in AnonymousWorkloads : InitWith(w)

SpecAnonymous == InitAnonymous /\ [][Next]_vars

\* " /start"
TextStartIndented == <<32, 47, 115, 116, 97, 114, 116>>

\* "/Start", U+1680 (ogham space mark), "x"
TextStartWide == <<47, 83, 116, 97, 114, 116, 5760, 120>>

\* Command workloads: one user sends a listed command in mixed case with an
\* argument after a Unicode space, an unlisted command, plain text, a text
\* that has the command after a blank, and a tap.
CommandWorkloads ==
    {[rate_limit |-> Nothing,
      inputs |-> {<<"A", "message", Some(TextStartWide)>>, <<"A", "message", Some(CmdAbout)>>,
                  <<"A", "message", Some(TextHi)>>, <<"A", "message", Some(TextStartIndented)>>,
                  <<"A", "callback_query", Nothing>>},
      instants |-> {Sec(1)},
      outcomes |-> {"ok"},
      events |-> CommandEvents,
      inflight |-> 1]}

InitCommand == \E w \in CommandWorkloads : InitWith(w)

SpecCommand == InitCommand /\ [][Next]_vars

\* the steps of a bot whose gatekeepers can fail on an internal error
NextFaulty ==
    \/ Next
    \/ \E e \in 1..Len(updates) : Fault(e)

\* Fault workloads: one user sends a message, a tap and an inline query, and
\* any gatekeeper can fail.
FaultWorkloads ==
    {[rate_limit |-> Some(1),
      inputs |-> {<<"A", "message", Some(TextHi)>>, <<"A", "callback_query", Nothing>>,
                  <<"A", "other", Nothing>>},
      instants |-> {Sec(1)},
      outcomes |-> {"ok", "raise"},
      events |-> FaultEvents,
      inflight |-> MaxInFlight]}

InitFault == \E w \in FaultWorkloads : InitWith(w)

SpecFault == InitFault /\ [][NextFaulty]_vars

\* "\u00e9t\u00e9" (e with acute, t, e with acute)
TextEte == <<233, 116, 233>>

\* U+1680 (ogham space mark), "\u00c9T\u00c9" in capitals, a blank
TextEteLoud == <<5760, 201, 84, 201, 32>>

\* "\u00c9t \u00e9"
TextEtSpaceE == <<201, 116, 32, 233>>

\* Content workloads: one user sends the word in lower case, the word in
\* capitals between a Unicode space and a blank, and the word with a blank
\* inside: two spellings of one content and a content of its own.
ContentWorkloads ==
    {[rate_limit |-> Nothing,
      inputs |-> {<<"A", "message", Some(TextEte)>>, <<"A", "message", Some(TextEteLoud)>>,
                  <<"A", "message", Some(TextEtSpaceE)>>},
      instants |-> {Sec(1)},
      outcomes |-> {"ok"},
      events |-> ContentEvents,
      inflight |-> 1]}

InitContent == \E w \in ContentWorkloads : InitWith(w)

SpecContent == InitContent /\ [][Next]_vars

\* Activity workloads: two users tap now, one hour later and one hour and a
\* second later.
ActivityWorkloads ==
    {[rate_limit |-> Nothing,
      inputs |-> {<<"A", "callback_query", Nothing>>, <<"B", "callback_query", Nothing>>},
      instants |-> {Sec(InactivitySeconds), Sec(InactivitySeconds + 1)},
      outcomes |-> {"ok", "raise"},
      events |-> ActivityEvents,
      inflight |-> MaxInFlight]}

InitActivity == \E w \in ActivityWorkloads : InitWith(w)

SpecActivity == InitActivity /\ [][Next]_vars

\* Ceiling workloads: one user taps at a limiter constructed with no ceiling
\* or with the ceiling 0, 1 or 2.
CeilingWorkloads ==
    {[rate_limit |-> c,
      inputs |-> {<<"A", "callback_query", Nothing>>},
      instants |-> {Sec(1)},
      outcomes |-> {"ok"},
      events |-> CeilingEvents,
      inflight |-> MaxInFlight] : c \in {Nothing} \cup {Some(n) : n \in 0..2}}

InitCeiling == \E w \in CeilingWorkloads : InitWith(w)

SpecCeiling == InitCeiling /\ [][Next]_vars

(* ----------------------------------------------------------------- claims *)

\* the rate checks of user u that admitted the update
Admissions(u) == {i \in 1..Len(rate_log[u]) : rate_log[u][i].verdict = "pass"}

\* the rate checks of user u that rejected the update
Denials(u) == {i \in 1..Len(rate_log[u]) : rate_log[u][i].verdict = "deny"}

\* C1: for every user and every interval [t, t + 60s], both ends included,
\* at most rate_limit updates of the user are admitted by the rate check at
\* instants of the interval. (An interval that holds an admission can be
\* moved to start at its first one without losing any, so the intervals
\* that start at an admission decide it.)
C1_AtMostCeilingPerClosedWindow ==
    \A u \in Users : \A i \in Admissions(u) :
        Cardinality({j \in Admissions(u) :
            /\ rate_log[u][i].at <= rate_log[u][j].at
            /\ rate_log[u][j].at <= rate_log[u][i].at + Sec(Window)}) <= rate_limit

\* C2: whatever the order in which the updates of a user reach the rate
\* check, a check made when rate_limit earlier admissions of that user are
\* less than 60s old is Denied; so of two checks made while the window holds
\* rate_limit - 1 instants at most one is Allowed.
C2_CeilingPlusOneDenied ==
    \A u \in Users : \A j \in 1..Len(rate_log[u]) :
        Cardinality({i \in Admissions(u) :
            /\ i < j
            /\ rate_log[u][j].at - rate_log[u][i].at < Sec(Window)}) >= rate_limit
        => rate_log[u][j].verdict = "deny"

\* C2 witness: two updates of one user are in flight together, checked at the
\* same instant; the first took the last free slot and the second was denied.
C2_Witness ==
    \E e1 \in InFlight, e2 \in InFlight :
        /\ e1 # e2
        /\ updates[e1].user = updates[e2].user
        /\ \E i \in 1..Len(updates[e1].path), j \in 1..Len(updates[e2].path) :
              /\ updates[e1].path[i].stage = "Throttling"
              /\ updates[e1].path[i].verdict = "pass"
              /\ updates[e2].path[j].stage = "Throttling"
              /\ updates[e2].path[j].verdict = "deny"
              /\ updates[e1].path[i].at = updates[e2].path[j].at
        /\ Len(user_timestamps[updates[e1].user]) = rate_limit

\* the last rate check before j at which the counter of u was reset (an
\* admission that left fewer than rate_limit / 2 instants in the window), or 0
LastReset(u, j) ==
    LET resets == {i \in Admissions(u) :
                      i < j /\ 2 * rate_log[u][i].size < rate_limit}
    IN  IF resets = {} THEN 0
        ELSE CHOOSE i \in resets : \A k \in resets : k <= i

\* how many denials of u, up to and including j, came after the last reset
DenialNumber(u, j) ==
    Cardinality({i \in Denials(u) : LastReset(u, j) < i /\ i <= j})

\* C5: the n-th rate-limit denial of a user since the counter was last reset
\* yields Soft for n = 1, Hard for n = 2 and Blocked for n minutes for n >= 3.
C5_TierOfNthDenial ==
    \A u \in Users : \A j \in Denials(u) :
        LET n == DenialNumber(u, j)
            entry == rate_log[u][j]
        IN  /\ n = 1 => entry.what = "Soft"
            /\ n = 2 => entry.what = "Hard"
            /\ n >= 3 => entry.what = "Blocked" /\ entry.n = n

\* C5 witness: three denials in a row were answered Soft, Hard, Blocked(3),
\* and a fourth Blocked(4).
C5_Witness ==
    \E u \in Users : \E j \in 1..Len(rate_log[u]) :
        /\ j + 3 <= Len(rate_log[u])
        /\ \A k \in j..(j + 3) : rate_log[u][k].verdict = "deny"
        /\ rate_log[u][j].what = "Soft"
        /\ rate_log[u][j + 1].what = "Hard"
        /\ rate_log[u][j + 2].what = "Blocked" /\ rate_log[u][j + 2].n = 3
        /\ rate_log[u][j + 3].what = "Blocked" /\ rate_log[u][j + 3].n = 4

\* the run of C9: a ceiling of 3 and the first five rate checks of A made at
\* t = 0, 1, 2, 3 and 61 seconds
Scenario9 ==
    /\ rate_limit = 3
    /\ Len(rate_log["A"]) >= 5
    /\ [i \in 1..5 |-> rate_log["A"][i].at]
          = <<0, Sec(1), Sec(2), Sec(3), Sec(Window + 1)>>

\* what C9 says of the first four checks: Allowed, Allowed, Allowed, Denied
\* with tier Soft; and the fifth is Allowed
Scenario9Verdicts ==
    /\ [i \in 1..5 |-> rate_log["A"][i].verdict]
          = <<"pass", "pass", "pass", "deny", "pass">>
    /\ rate_log["A"][4].what = "Soft"

\* C9 as stated: in that run the admission at t = 61 sees a window of size 1
\* and leaves the violation counter of A at 0.
C9_AsStated ==
    Scenario9 => /\ Scenario9Verdicts
                 /\ rate_log["A"][5].size = 1
                 /\ rate_log["A"][5].warnings = 0

\* C9 amended: in that run the events at t = 0, 1, 2 are Allowed, the event
\* at t = 3 is Denied with tier Soft, and the event at t = 61 is Allowed; the
\* window then holds the instants 2 and 61, size 2, which is not below 1.5,
\* and the violation counter of A stays at 1.
C9_Amended ==
    Scenario9 => /\ Scenario9Verdicts
                 /\ rate_log["A"][5].size = 2
                 /\ rate_log["A"][5].warnings = 1
                 /\ (Len(rate_log["A"]) = 5 =>
                        /\ user_warnings["A"] = 1
                        /\ user_timestamps["A"] = <<Sec(2), Sec(Window + 1)>>)

\* C9 witness: the run has happened, its fifth check being the last one.
C9_Witness == Scenario9 /\ Len(rate_log["A"]) = 5

\* C10: after every Allowed rate check the violation counter of the user is 0
\* if the window, the admitted update counted, holds fewer than rate_limit / 2
\* instants, and is what it was before the check otherwise.
C10_ResetOnGoodBehaviour ==
    \A u \in Users :
        /\ \A j \in Admissions(u) :
              LET before == IF j = 1 THEN 0 ELSE rate_log[u][j - 1].warnings
              IN  rate_log[u][j].warnings =
                      IF 2 * rate_log[u][j].size < rate_limit THEN 0 ELSE before
        /\ Len(rate_log[u]) > 0 =>
              /\ user_warnings[u] = rate_log[u][Len(rate_log[u])].warnings
              /\ Len(user_timestamps[u]) = rate_log[u][Len(rate_log[u])].size

\* C10 witness: an admission right after a Blocked denial reset the counter,
\* and another admission left a non-zero counter as it was.
C10_Witness ==
    \E u \in Users : \E j \in Admissions(u), k \in Admissions(u) :
        /\ j > 1
        /\ rate_log[u][j - 1].what = "Blocked"
        /\ rate_log[u][j].warnings = 0
        /\ k > 1
        /\ rate_log[u][k].warnings > 0
        /\ rate_log[u][k].warnings = rate_log[u][k - 1].warnings

Gatekeepers == {"AntiSpam", "Throttling", "CommandThrottling"}

\* the positions of the path of update e at which a gatekeeper made a check
\* (a stage that does not apply to the update passes it on unchecked)
Checks(e) ==
    {i \in 1..Len(updates[e].path) :
        /\ updates[e].path[i].stage \in Gatekeepers
        /\ updates[e].path[i].verdict # "skip"}

Checked(e, stage) == \E i \in Checks(e) : updates[e].path[i].stage = stage

CheckOf(e, stage) ==
    updates[e].path[CHOOSE i \in Checks(e) : updates[e].path[i].stage = stage]

Finished(e) == updates[e].pc \in {"done", "raised"}

WasDenied(e) == \E i \in Checks(e) : updates[e].path[i].verdict = "deny"

\* C3: for every update that carries a user the protected handler is invoked
\* exactly once if no check denies it and never if a check denies it, and a
\* denial is the last stage evaluated for that update.
C3_HandlerIffAllAdmit ==
    \A e \in 1..Len(updates) :
        updates[e].user # None =>
            /\ updates[e].handled <= 1
            /\ WasDenied(e) =>
                  /\ updates[e].handled = 0
                  /\ updates[e].pc \in {"answer", "done"}
                  /\ updates[e].path[Len(updates[e].path)].verdict = "deny"
            /\ (Finished(e) /\ ~WasDenied(e)) => updates[e].handled = 1

\* C3 witness: one update was admitted by all three checks and handled once;
\* another was denied by the rate check and a third by the cooldown check,
\* both finished without reaching the handler.
C3_Witness ==
    \E e1, e2, e3 \in 1..Len(updates) :
        /\ \A g \in Gatekeepers : Checked(e1, g) /\ CheckOf(e1, g).verdict = "pass"
        /\ Finished(e1) /\ updates[e1].handled = 1
        /\ Finished(e2) /\ Checked(e2, "Throttling")
        /\ CheckOf(e2, "Throttling").verdict = "deny" /\ updates[e2].handled = 0
        /\ Finished(e3) /\ Checked(e3, "CommandThrottling")
        /\ CheckOf(e3, "CommandThrottling").verdict = "deny" /\ updates[e3].handled = 0

\* the checks of every update are made in the order that rank gives
ChecksInOrder(rank) ==
    \A e \in 1..Len(updates) : \A i \in Checks(e), j \in Checks(e) :
        i < j => rank[updates[e].path[i].stage] < rank[updates[e].path[j].stage]

\* C4 as stated: the checks of one update are made in the order rate check,
\* cooldown check, spam check.
C4_AsStated ==
    ChecksInOrder([Throttling |-> 1, CommandThrottling |-> 2, AntiSpam |-> 3])

\* C4 amended: the checks of one update are made strictly one after the other
\* in the order spam check, rate check, cooldown check: the rate check is
\* never made before the spam check, nor the cooldown check before the rate
\* check.
C4_SpamRateCooldown ==
    ChecksInOrder([AntiSpam |-> 1, Throttling |-> 2, CommandThrottling |-> 3])

\* C4 witness: all three checks were made for one update.
C4_Witness ==
    \E e \in 1..Len(updates) : \A g \in Gatekeepers : Checked(e, g)

\* the earlier updates of the same user with the same normalized content
\* that the spam check allowed not more than span ticks before the check of e
\* (at exactly span ticks too, if closed)
AllowedRepeats(e, span, closed) ==
    {f \in 1..(e - 1) :
        /\ updates[f].user = updates[e].user
        /\ Checked(f, "AntiSpam")
        /\ CheckOf(f, "AntiSpam").verdict = "pass"
        /\ Normalize(updates[f].text[1]) = Normalize(updates[e].text[1])
        /\ LET age == CheckOf(e, "AntiSpam").at - CheckOf(f, "AntiSpam").at
           IN  age < span \/ (closed /\ age = span)}

\* C6: the spam check denies a text when the user's same normalized content
\* was allowed 4 times in the 60 seconds before it, so that of 5 sent within
\* 60 seconds the first 4 are allowed and the 5th is denied; and it allows a
\* text when fewer than 4 such occurrences are 60 seconds old or younger, so
\* that the content is allowed again once the window of the earlier ones has
\* elapsed.
C6_FifthRepeatDenied ==
    \A e \in 1..Len(updates) :
        Checked(e, "AntiSpam") =>
            /\ Cardinality(AllowedRepeats(e, Sec(Window), FALSE)) >= 4
                  => CheckOf(e, "AntiSpam").verdict = "deny"
            /\ Cardinality(AllowedRepeats(e, Sec(Window), TRUE)) < 4
                  => CheckOf(e, "AntiSpam").verdict = "pass"

\* C6 witness: the first four sends of one content were allowed, the fifth,
\* within 60 seconds of the first, was denied, and the sixth, more than 60
\* seconds after them, was allowed.
C6_Witness ==
    /\ Len(updates) = 6
    /\ \A e \in 1..6 : Checked(e, "AntiSpam")
    /\ [e \in 1..6 |-> CheckOf(e, "AntiSpam").verdict]
          = <<"pass", "pass", "pass", "pass", "deny", "pass">>
    /\ CheckOf(5, "AntiSpam").at - CheckOf(1, "AntiSpam").at < Sec(Window)
    /\ CheckOf(6, "AntiSpam").at - CheckOf(5, "AntiSpam").at > Sec(Window)
    /\ \E e \in 1..6 : updates[e].text # updates[1].text

\* the earlier updates with which the user of e used the command of e
\* successfully
EarlierUses(e) ==
    {f \in 1..(e - 1) :
        /\ updates[f].user = updates[e].user
        /\ Checked(f, "CommandThrottling")
        /\ CheckOf(f, "CommandThrottling").verdict = "pass"
        /\ CommandOf(updates[f].text[1]) = CommandOf(updates[e].text[1])}

\* the ticks between the cooldown check of e and the last successful use
Elapsed(e) ==
    LET last == CHOOSE f \in EarlierUses(e) : \A g \in EarlierUses(e) : g <= f
    IN  CheckOf(e, "CommandThrottling").at - CheckOf(last, "CommandThrottling").at

\* C7: a use of a listed command is Allowed if and only if the user has not
\* used it successfully before or the last successful use is at least the
\* cooldown of the command ago.
C7_AllowedIffCooldownOver ==
    \A e \in 1..Len(updates) :
        Checked(e, "CommandThrottling") =>
            LET d == Sec(command_cooldowns[CommandOf(updates[e].text[1])])
            IN  CheckOf(e, "CommandThrottling").verdict = "pass"
                    <=> (EarlierUses(e) = {} \/ Elapsed(e) >= d)

\* C7 witness: a command was used, denied less than the cooldown later, and
\* allowed exactly the cooldown after the first use.
C7_Witness ==
    \E e \in 1..Len(updates), f \in 1..Len(updates) :
        /\ Checked(e, "CommandThrottling") /\ Checked(f, "CommandThrottling")
        /\ EarlierUses(e) # {} /\ EarlierUses(f) = EarlierUses(e)
        /\ CheckOf(f, "CommandThrottling").verdict = "deny"
        /\ CheckOf(e, "CommandThrottling").verdict = "pass"
        /\ Elapsed(e) = Sec(command_cooldowns[CommandOf(updates[e].text[1])])

\* the answers an update has handed to the sender
Answers(e) ==
    {updates[e].sent[i] : i \in 1..Len(updates[e].sent)}
        \cup {updates[e].pending[i] : i \in 1..Len(updates[e].pending)}

\* C8: the number of seconds r that a cooldown denial reports is more than 0,
\* at most the cooldown of the command, and the cooldown less the time since
\* the last successful use.
C8_RemainingReported ==
    \A e \in 1..Len(updates) : \A a \in Answers(e) :
        a.what = "Cooldown" =>
            LET d == command_cooldowns[CommandOf(updates[e].text[1])]
            IN  /\ 0 < a.n
                /\ a.n <= d
                /\ Sec(a.n) = Sec(d) - Elapsed(e)

(* C20: in every reachable state the timestamp window of each user holds at
   most as many instants as the ceiling of the limiter. *)
C20_WindowAtMostCeiling ==
    \A u \in Keys : Len(user_timestamps[u]) <= rate_limit

\* a full window has turned an update away
C20_Witness ==
    \E u \in Users :
        /\ Len(user_timestamps[u]) = rate_limit
        /\ \E i \in Denials(u) : rate_log[u][i].size = rate_limit

\* the instants of the admitted rate checks of user u, oldest first
AdmissionInstants(u) ==
    LET Admitted(entry) == entry.verdict = "pass"
        admitted == SelectSeq(rate_log[u], Admitted)
    IN  [i \in 1..Len(admitted) |-> admitted[i].at]

\* window is the end of instants
IsSuffix(window, instants) ==
    /\ Len(window) <= Len(instants)
    /\ \A i \in 1..Len(window) :
          window[i] = instants[Len(instants) - Len(window) + i]

(* C18: a denied rate check does not add the rejected attempt to the window of
   the user: the window holds the instants of the latest admitted checks and
   nothing else, and right after a denial it has the size the denied check
   found once the old instants were removed; so the instant at which the oldest
   counted event expires is the one the admissions set. *)
C18_DenialNotCounted ==
    \A u \in Keys :
        /\ IsSuffix(user_timestamps[u], AdmissionInstants(u))
        /\ rate_log[u] # <<>> =>
              LET last == rate_log[u][Len(rate_log[u])]
              IN  last.verdict = "deny" => Len(user_timestamps[u]) = last.size

\* after denials, the user is admitted again as soon as the oldest counted
\* instant has left the window
C18_Witness ==
    \E u \in Users : \E i \in Denials(u) : \E j \in Admissions(u) :
        /\ i < j
        /\ rate_log[u][j].at <= Sec(Window + 1)
        /\ Len(user_timestamps[u]) >= 1

\* the updates of user u that the stage let through, in the order of arrival
PassedBy(stage, u) ==
    LET Passed(e) == /\ updates[e].user = u
                     /\ Checked(e, stage)
                     /\ CheckOf(e, stage).verdict = "pass"
    IN  SelectSeq([e \in 1..Len(updates) |-> e], Passed)

\* what the spam check filed for the messages of user u it let through
FiledMessages(u) ==
    LET passed == PassedBy("AntiSpam", u)
    IN  [i \in 1..Len(passed) |->
            <<Normalize(updates[passed[i]].text[1]), CheckOf(passed[i], "AntiSpam").at>>]

(* C17: a message denied by the spam check is not appended to the content
   history of its user: the history holds the latest messages the check let
   through and nothing else, so a denied repeat adds no occurrence that could
   keep the content denied for longer. *)
C17_SpamDenialNotFiled ==
    \A u \in Keys : IsSuffix(user_message_history[u], FiledMessages(u))

\* a repeat denied half a second before the window of the earlier occurrences
\* ends is followed by an allowed repeat right after that window
C17_Witness ==
    \E e \in 1..Len(updates), f \in 1..Len(updates) :
        /\ e < f
        /\ updates[e].user = updates[f].user
        /\ Checked(e, "AntiSpam") /\ Checked(f, "AntiSpam")
        /\ Normalize(updates[e].text[1]) = Normalize(updates[f].text[1])
        /\ CheckOf(e, "AntiSpam").verdict = "deny"
        /\ CheckOf(e, "AntiSpam").at = Sec(Window) - 1
        /\ CheckOf(f, "AntiSpam").verdict = "pass"
        /\ CheckOf(f, "AntiSpam").at = Sec(Window + 1)

\* the updates with which user u used command c successfully
UsesOf(u, c) ==
    {e \in 1..Len(updates) :
        /\ updates[e].user = u
        /\ Checked(e, "CommandThrottling")
        /\ CheckOf(e, "CommandThrottling").verdict = "pass"
        /\ CommandOf(updates[e].text[1]) = c}

\* the instant of the last successful use
LastUse(u, c) ==
    LET last == CHOOSE e \in UsesOf(u, c) : \A f \in UsesOf(u, c) : f <= e
    IN  CheckOf(last, "CommandThrottling").at

\* the attempts denied since the last successful use before e
DeniedSince(e) ==
    {f \in 1..(e - 1) :
        /\ updates[f].user = updates[e].user
        /\ Checked(f, "CommandThrottling")
        /\ CheckOf(f, "CommandThrottling").verdict = "deny"
        /\ CommandOf(updates[f].text[1]) = CommandOf(updates[e].text[1])
        /\ \A g \in EarlierUses(e) : g < f}

(* C16: a cooldown denial leaves the last-used entry of the user and command
   unchanged: the entry always is the instant of the last successful use, and
   an attempt made the cooldown or more after that use is allowed however many
   attempts were denied in between. *)
C16_DenialKeepsAnchor ==
    /\ \A u \in Keys :
          /\ DOMAIN user_last_command[u] = {c \in DOMAIN command_cooldowns : UsesOf(u, c) # {}}
          /\ \A c \in DOMAIN user_last_command[u] : user_last_command[u][c] = LastUse(u, c)
    /\ \A e \in 1..Len(updates) :
          (/\ Checked(e, "CommandThrottling")
           /\ DeniedSince(e) # {}
           /\ Elapsed(e) >= Sec(command_cooldowns[CommandOf(updates[e].text[1])]))
              => CheckOf(e, "CommandThrottling").verdict = "pass"

\* a command used at t0, denied later within the cooldown, is allowed at
\* t0 + cooldown, and the entry now holds that instant
C16_Witness ==
    \E e \in 1..Len(updates) :
        /\ Checked(e, "CommandThrottling")
        /\ DeniedSince(e) # {}
        /\ Elapsed(e) = Sec(command_cooldowns[CommandOf(updates[e].text[1])])
        /\ CheckOf(e, "CommandThrottling").verdict = "pass"
        /\ user_last_command[updates[e].user][CommandOf(updates[e].text[1])]
              = CheckOf(e, "CommandThrottling").at

\* the violation count of user u before its i-th rate check
WarningsBefore(u, i) == IF i = 1 THEN 0 ELSE rate_log[u][i - 1].warnings

\* the updates the stage denied
DeniedBy(stage) ==
    {e \in 1..Len(updates) :
        \E i \in Checks(e) : /\ updates[e].path[i].stage = stage
                             /\ updates[e].path[i].verdict = "deny"}

(* C15: the violation counter of a user goes up, and then by exactly one, only
   in a rate check that denies an update of that user; between the rate checks
   of the user it keeps its value, so that a cooldown denial or a spam denial
   leaves it unchanged, and such a denial issues no tier: its only answer is
   the cooldown or the spam notice. *)
C15_CounterOnlyByRateDenial ==
    /\ \A u \in Keys :
          /\ user_warnings[u] = WarningsBefore(u, Len(rate_log[u]) + 1)
          /\ \A i \in 1..Len(rate_log[u]) :
                IF rate_log[u][i].verdict = "deny"
                THEN rate_log[u][i].warnings = WarningsBefore(u, i) + 1
                ELSE rate_log[u][i].warnings \in {WarningsBefore(u, i), 0}
    /\ \A e \in DeniedBy("AntiSpam") \cup DeniedBy("CommandThrottling") :
          /\ updates[e].message = Nothing
          /\ \A a \in Answers(e) : a.what \in {"Spam", "Cooldown"}

\* a user with a violation on the count is denied by the cooldown check, and
\* the count is still what the rate denial left
C15_Witness ==
    \E e \in DeniedBy("CommandThrottling") :
        /\ user_warnings[updates[e].user] >= 1
        /\ \E f \in DeniedBy("Throttling") :
              f < e /\ updates[f].user = updates[e].user

(* C13: an exception raised by the protected handler of an admitted update is
   caught at the boundary of the chain and goes no further: the invocation of
   the chain for that update never ends with the exception raised to the
   dispatcher. *)
C13_HandlerErrorContained ==
    \A e \in 1..Len(updates) :
        updates[e].handled >= 1 => updates[e].pc # "raised"

\* the updates a step works on
Worked == {e \in 1..Len(updates) : updates'[e] # updates[e]}

\* a step changes what the gatekeepers keep for user v
Touched(v) ==
    \/ user_timestamps'[v] # user_timestamps[v]
    \/ user_warnings'[v] # user_warnings[v]
    \/ user_last_command'[v] # user_last_command[v]
    \/ user_message_history'[v] # user_message_history[v]

\* the rate checks of user u all lie within one window
OneWindow(u) ==
    rate_log[u] # <<>> =>
        rate_log[u][Len(rate_log[u])].at - rate_log[u][1].at < Sec(Window)

Min(a, b) == IF a <= b THEN a ELSE b

\* each user is admitted as often as the user alone would be
OwnShare ==
    \A u \in Users :
        OneWindow(u) => Cardinality(Admissions(u)) = Min(Len(rate_log[u]), rate_limit)

(* C11: users are isolated from each other: a step that changes the timestamp
   window, the cooldown entries, the content history or the violation counter
   of a user is a step of an update of that user, whatever updates of other
   users are in flight; and among rate checks of one user that lie within one
   window, the number admitted is the smaller of the number of those checks
   and the ceiling, whatever the other users send. *)
C11_UsersIsolated ==
    /\ []OwnShare
    /\ [][\A v \in Keys : Touched(v) => \E e \in Worked : updates[e].user = v]_vars

\* both users have used up the ceiling and were then denied, their updates
\* taking turns, and each has been admitted exactly ceiling times
C11_Witness ==
    /\ \A u \in Users :
          /\ OneWindow(u)
          /\ Len(rate_log[u]) = rate_limit + 1
          /\ Cardinality(Admissions(u)) = rate_limit
    /\ \E e \in 1..Len(updates) : e < Len(updates) /\ updates[e].user # updates[e + 1].user
    /\ \E e \in 1..Len(updates), f \in 1..Len(updates) :
          /\ updates[e].user # updates[f].user
          /\ {e, f} \subseteq InFlight

\* the updates that carry no user
Anonymous == {e \in 1..Len(updates) : updates[e].user = None}

\* nothing is kept under the key of a missing user
NothingKeptForNone ==
    /\ user_timestamps[None] = <<>>
    /\ user_warnings[None] = 0
    /\ user_last_command[None] = <<>>
    /\ user_message_history[None] = <<>>
    /\ None \notin DOMAIN user_last_activity
    /\ rate_log[None] = <<>>

\* every stage hands an update without a user on, unchecked, up to the handler
PassedUnchecked ==
    \A e \in Anonymous :
        /\ Checks(e) = {}
        /\ ~WasDenied(e)
        /\ \A i \in 1..Len(updates[e].path) :
              /\ updates[e].path[i].stage = middleware[i]
              /\ updates[e].path[i].verdict = "skip"
        /\ updates[e].pc \in {"handler", "done"}
              => /\ Len(updates[e].path) = Len(middleware)
                 /\ updates[e].sent = <<>>
        /\ updates[e].pc = "done" => updates[e].handled = 1

(* C12: an update with no identifiable user is handed to the handler by every
   stage, the spam check, the rate check and the cooldown check, without being
   checked or denied, and a step of such an update leaves every per-user map
   of every stage as it was. *)
C12_NoUserPassesUntouched ==
    /\ [](PassedUnchecked /\ NothingKeptForNone)
    /\ [][(\E e \in Worked : updates[e].user = None) => UNCHANGED mw]_vars

\* a message and a tap without a user have reached the handler while user A,
\* sending the same command, was denied by the rate check
C12_Witness ==
    /\ \E e \in Anonymous : HasMessage(updates[e]) /\ updates[e].pc = "done"
    /\ \E e \in Anonymous : HasCallback(updates[e]) /\ updates[e].pc = "done"
    /\ \E e \in DeniedBy("Throttling") : \E f \in Anonymous : e < f
    /\ Cardinality(Anonymous) > rate_limit

\* the cooldown table as the claim gives it, seconds
ListedCooldowns == (CmdStart :> 5) @@ (CmdHelp :> 3) @@ (CmdStats :> 10)

\* t[lo..hi] is the first whitespace-delimited token of t: whitespace alone
\* comes before it, it holds none, and whitespace or the end of t follows it
IsFirstToken(t, lo, hi) ==
    /\ lo <= hi
    /\ \A i \in 1..(lo - 1) : t[i] \in Whitespace
    /\ \A i \in lo..hi : t[i] \notin Whitespace
    /\ hi = Len(t) \/ t[hi + 1] \in Whitespace

\* the update is a message whose first whitespace-delimited token is a listed
\* command, whatever the case of its letters
Listed(u) ==
    /\ HasMessage(u)
    /\ HasText(u.text)
    /\ \E lo \in 1..Len(u.text[1]), hi \in 1..Len(u.text[1]) :
          /\ IsFirstToken(u.text[1], lo, hi)
          /\ Lower(SubSeq(u.text[1], lo, hi)) \in DOMAIN ListedCooldowns

\* the cooldown check of every update is a denial or a recorded use only for a
\* listed command, and every entry kept is the use of a listed command
OnlyListedChecked ==
    /\ command_cooldowns = ListedCooldowns
    /\ \A e \in 1..Len(updates) : \A i \in 1..Len(updates[e].path) :
          updates[e].path[i].stage = "CommandThrottling" =>
              /\ updates[e].path[i].verdict \in {"pass", "deny"} => Listed(updates[e])
              /\ ~Listed(updates[e]) => updates[e].path[i].verdict = "skip"
    /\ \A u \in Keys : \A c \in DOMAIN user_last_command[u] :
          /\ c \in DOMAIN ListedCooldowns
          /\ \E e \in UsesOf(u, c) : Listed(updates[e])

(* C19: the cooldown check denies an update, or records a last-used entry,
   only when the update is a message whose first whitespace-delimited token is
   a command of the cooldown table (start 5 s, help 3 s, stats 10 s); any other
   update, an unlisted command, plain text or a tap, is passed on by the check
   and leaves all cooldown entries as they were. *)
C19_OnlyListedCommands ==
    /\ []OnlyListedChecked
    /\ [][\A e \in Worked :
            (updates[e].pc = "CommandThrottling" /\ ~Listed(updates[e]))
                => /\ UNCHANGED user_last_command
                   /\ updates'[e].pc = CallNext("CommandThrottling")]_vars

\* a listed command, spelled in mixed case with a Unicode space after it, was
\* used and then denied, while an unlisted command sent twice at the same
\* instant, a plain text and a tap went past the check
C19_Witness ==
    /\ \E e \in DeniedBy("CommandThrottling") : updates[e].text = Some(TextStartWide)
    /\ \E e \in 1..Len(updates), f \in 1..Len(updates) :
          /\ e < f
          /\ updates[e].text = Some(CmdAbout) /\ updates[f].text = Some(CmdAbout)
          /\ updates[e].pc = "done" /\ updates[f].pc = "done"
          /\ updates[e].path[3].at = updates[f].path[3].at
          /\ updates[f].path[3] = Step("CommandThrottling", "skip", 0)
    /\ \E e \in 1..Len(updates) :
          /\ ~HasMessage(updates[e])
          /\ updates[e].pc = "done"

\* the updates on which a gatekeeper failed
FaultedUpdates ==
    {e \in 1..Len(updates) :
        \E i \in 1..Len(updates[e].path) : updates[e].path[i].verdict = "fault"}

\* the generic error notice has been sent for update e
ErrorSent(e) == \E i \in 1..Len(updates[e].sent) : updates[e].sent[i].what = "Error"

(* C14: when a gatekeeper stage fails on an internal error before it calls the
   next handler, the update never reaches the protected handler, and once its
   processing has ended a generic error response has been sent to the user. *)
C14_FailClosed ==
    \A e \in FaultedUpdates :
        /\ updates[e].handled = 0
        /\ updates[e].pc # "handler"
        /\ Finished(e) => ErrorSent(e)

(* C21: whatever the ceiling, when a user whose violation counter is not 0
   stays silent for more than 60 seconds and then sends one update, the rate
   check allows that update and the counter of the user is 0 after it. *)
C21_ResetAfterSilence ==
    \A u \in Users : \A i \in 2..Len(rate_log[u]) :
        (/\ WarningsBefore(u, i) > 0
         /\ rate_log[u][i].at - rate_log[u][i - 1].at > Sec(Window))
            => /\ rate_log[u][i].verdict = "pass"
               /\ rate_log[u][i].warnings = 0

\* the admitted instants of user u that are at most 60 seconds old at time t
ClosedWindow(u, t) ==
    LET InWindow(instant) == t - Sec(Window) <= instant /\ instant <= t
    IN  SelectSeq(AdmissionInstants(u), InWindow)

(* C24: the pruning step of a rate check at time now keeps exactly the stored
   instants t with now - 60 s <= t <= now: after every rate check the window
   of the user holds the admitted instants that are at most 60 seconds old, an
   instant exactly 60 seconds old among them, and such an instant counts
   against the ceiling. *)
C24_PruneKeepsClosedWindow ==
    \A u \in Users :
        rate_log[u] # <<>> =>
            LET last == rate_log[u][Len(rate_log[u])]
            IN  /\ user_timestamps[u] = ClosedWindow(u, last.at)
                /\ last.verdict = "pass" => Len(ClosedWindow(u, last.at)) <= rate_limit

\* the updates answered with the tier Blocked
BlockedUpdates ==
    {e \in DeniedBy("Throttling") :
        updates[e].message # Nothing /\ updates[e].message[1].what = "Blocked"}

(* C26: the tier Blocked is an enforced temporary block: once an update of a
   user was answered Blocked for d minutes at time t, no later update of that
   user is handed to the handler before t + d minutes. *)
C26_BlockEnforced ==
    \A b \in BlockedUpdates : \A e \in (b + 1)..Len(updates) :
        (updates[e].user = updates[b].user /\ updates[e].handled >= 1)
            => CheckOf(e, "Throttling").at
                  >= CheckOf(b, "Throttling").at + Sec(60 * updates[b].message[1].n)

(* C22: every update denied by the rate check causes exactly one response to
   be sent, and that response carries the tier of the violation, Soft, Hard or
   Blocked with its duration, whatever the kind of the update. *)
C22_TierSentForEveryKind ==
    \A e \in DeniedBy("Throttling") :
        Finished(e) =>
            /\ Len(updates[e].sent) = 1
            /\ updates[e].sent[1].what = updates[e].message[1].what
            /\ updates[e].sent[1].n = updates[e].message[1].n

(* C25: as the clock never goes back, after every rate check of a user the
   window of that user holds no instant that was more than 60 seconds old at
   the time of the check, and its instants stand in the order of insertion,
   never decreasing, however the updates of the user interleave. *)
C25_WindowFreshAndOrdered ==
    \A u \in Users :
        rate_log[u] # <<>> =>
            LET last == rate_log[u][Len(rate_log[u])]
                window == user_timestamps[u]
            IN  /\ \A i \in 1..Len(window) : last.at - window[i] <= Sec(Window)
                /\ \A i \in 1..Len(window), j \in 1..Len(window) :
                      i < j => window[i] <= window[j]

\* a rate check has removed the oldest admitted instant and left two younger
\* ones, inserted at different times
C25_Witness ==
    \E u \in Users :
        /\ Len(user_timestamps[u]) = 2
        /\ user_timestamps[u][1] < user_timestamps[u][2]
        /\ Len(AdmissionInstants(u)) = 3
        /\ user_timestamps[u][2] - AdmissionInstants(u)[1] > Sec(Window)

\* how often the content occurs in the history
Occurrences(history, content) ==
    Cardinality({i \in 1..Len(history) : history[i][1] = content})

(* C29: in every reachable state the content history of a user holds at most
   spam_threshold - 1 = 4 entries with the same normalized content. *)
C29_AtMostFourOfAContent ==
    /\ SpamThreshold - 1 = 4
    /\ \A u \in Keys : \A i \in 1..Len(user_message_history[u]) :
          Occurrences(user_message_history[u], user_message_history[u][i][1]) <= 4

\* four entries of one content are on file and a fifth message of that
\* content, written differently, was turned away
C29_Witness ==
    \E u \in Users :
        /\ Len(user_message_history[u]) = 4
        /\ Occurrences(user_message_history[u], user_message_history[u][1][1]) = 4
        /\ \E e \in DeniedBy("AntiSpam") :
              /\ updates[e].user = u
              /\ Normalize(updates[e].text[1]) = user_message_history[u][1][1]
              /\ updates[e].text[1] # user_message_history[u][1][1]

\* the update has put its text on file in the content history
Filed(e) == Checked(e, "AntiSpam") /\ CheckOf(e, "AntiSpam").verdict = "pass"

(* C23, as stated: an update denied by the rate check changes neither the
   cooldown entries nor the content history of its user, and an update denied
   by the cooldown check does not change the content history. *)
C23_AsStated ==
    /\ \A e \in DeniedBy("Throttling") : ~Checked(e, "CommandThrottling") /\ ~Filed(e)
    /\ \A e \in DeniedBy("CommandThrottling") : ~Filed(e)

\* the stages that have looked at update e
StagesSeen(e) == {updates[e].path[i].stage : i \in 1..Len(updates[e].path)}

\* a denial ends the chain: no stage after the denying one sees the update
DenialEndsChain ==
    /\ \A e \in DeniedBy("AntiSpam") : StagesSeen(e) = {"AntiSpam"}
    /\ \A e \in DeniedBy("Throttling") : StagesSeen(e) = {"AntiSpam", "Throttling"}
    /\ \A e \in DeniedBy("CommandThrottling") :
          StagesSeen(e) = {"AntiSpam", "Throttling", "CommandThrottling"}
    /\ \A e \in DeniedBy("Throttling") \cup DeniedBy("CommandThrottling") :
          (HasMessage(updates[e]) /\ HasText(updates[e].text)) => Filed(e)

(* C23, amended: the stages run in the order spam check, rate check, cooldown
   check, and an update denied at one of them leaves the state of every later
   one untouched: an update denied by the spam check changes neither the
   window, the violation counter nor the cooldown entries of its user, and an
   update denied by the rate check does not change the cooldown entries; the
   text of a message denied by the rate check or by the cooldown check is
   already on file in the content history. Once denied, an update changes
   nothing any more. *)
C23_DenialLeavesLaterStages ==
    /\ []DenialEndsChain
    /\ [][(\E e \in Worked : WasDenied(e)) => UNCHANGED mw]_vars

\* a message was denied by the rate check with its text on file, and a later
\* one of the same content was denied by the spam check before any rate check
C23_Witness ==
    /\ \E e \in DeniedBy("Throttling") : Filed(e) /\ Finished(e)
    /\ \E e \in DeniedBy("AntiSpam") : Finished(e)

(* C30, as stated: after each pruning pass the content history of a user holds
   at most ceiling entries, only updates admitted by the rate limiter being
   recorded in it. *)
C30_AsStated ==
    /\ \A u \in Keys : Len(user_message_history[u]) <= rate_limit
    /\ \A e \in 1..Len(updates) : Filed(e) => e \notin DeniedBy("Throttling")

\* the time of the last spam check of a message of user u
LastSpamCheck(u) ==
    LET checked == {e \in 1..Len(updates) : updates[e].user = u /\ Checked(e, "AntiSpam")}
        last == CHOOSE e \in checked : \A f \in checked : f <= e
    IN  CheckOf(last, "AntiSpam").at

\* the normalized contents user u has sent
ContentsSent(u) ==
    {Normalize(updates[e].text[1]) :
        e \in {f \in 1..Len(updates) : updates[f].user = u /\ Checked(f, "AntiSpam")}}

(* C30, amended: the content history of a user is bounded by time and by
   content, not by the ceiling: after each pruning pass it holds only entries
   less than 60 seconds old, at most 4 for each normalized content, so at most
   4 times the number of distinct contents the user sent in those 60 seconds;
   the spam check runs before the rate limiter, so messages the rate limiter
   then denies are recorded too. *)
C30_HistoryBoundedByTimeAndContent ==
    \A u \in Users :
        LET history == user_message_history[u]
        IN  /\ \A i \in 1..Len(history) :
                  /\ LastSpamCheck(u) - history[i][2] < Sec(Window)
                  /\ Occurrences(history, history[i][1]) <= 4
            /\ Len(history) <= 4 * Cardinality(ContentsSent(u))
            /\ IsSuffix(history, FiledMessages(u))

\* the history of a user holds more entries than the ceiling, one of them of
\* a message that the rate limiter denied, after a pass that removed an entry
C30_Witness ==
    \E u \in Users :
        /\ Len(user_message_history[u]) > rate_limit
        /\ Len(FiledMessages(u)) > Len(user_message_history[u])
        /\ \E e \in DeniedBy("Throttling") :
              /\ updates[e].user = u
              /\ \E i \in 1..Len(user_message_history[u]) :
                    user_message_history[u][i]
                        = <<Normalize(updates[e].text[1]), CheckOf(e, "AntiSpam").at>>

\* the place of the rate check of update e in the rate checks of its user
RateIndex(e) ==
    Cardinality({f \in 1..e : updates[f].user = updates[e].user /\ Checked(f, "Throttling")})

\* the tier that belongs to the n-th violation
Tier(n) ==
    IF n = 1 THEN [what |-> "Soft", n |-> 0]
    ELSE IF n = 2 THEN [what |-> "Hard", n |-> 0]
    ELSE [what |-> "Blocked", n |-> n]

(* C28: when several rate-denied updates of one user are processed at the same
   time, their denial messages still being sent, each denial has its own
   violation count: without a reset in between the k-th denial has the count
   k, and the tier sent for a denial is the tier of its own count, not of the
   count of a later denial. *)
C28_OwnCountPerDenial ==
    \A e \in DeniedBy("Throttling") :
        LET n == DenialNumber(updates[e].user, RateIndex(e))
        IN  /\ CheckOf(e, "Throttling").n = n
            /\ HasMessage(updates[e]) =>
                  \A a \in Answers(e) : a.what = Tier(n).what /\ a.n = Tier(n).n

\* the Soft answer of one denied message has gone out while the Hard answer of
\* a later one was still being sent and the counter stood at 2
C28_Witness ==
    \E e \in DeniedBy("Throttling"), f \in DeniedBy("Throttling") :
        /\ e < f
        /\ updates[e].user = updates[f].user
        /\ HasMessage(updates[e]) /\ HasMessage(updates[f])
        /\ updates[e].pc = "done" /\ updates[e].sent = <<Response("message.answer", "Soft", 0)>>
        /\ updates[f].pc = "answer" /\ updates[f].pending[1].what = "Hard"
        /\ user_warnings[updates[e].user] = 2

\* the updates whose task is inside the code of a gatekeeper or of the
\* activity tracker, between two suspensions
InsideStage ==
    {e \in 1..Len(updates) :
        updates[e].pc \in {"AntiSpam", "Throttling", "CommandThrottling", "UserActivity"}}

\* the updates whose task is suspended on I/O: an answer being sent or the
\* protected handler
Suspended ==
    {e \in 1..Len(updates) : updates[e].pc \in {"answer", "error_answer", "handler"}}

\* the window the i-th rate check of user u finds, had the checks of u run one
\* after the other
ReplayedWindow(u, i) ==
    LET Counted(j) == /\ j < i
                      /\ rate_log[u][j].verdict = "pass"
                      /\ rate_log[u][j].at > rate_log[u][i].at - Sec(Window)
    IN  SelectSeq([j \in 1..Len(rate_log[u]) |-> j], Counted)

\* every rate decision is the one a run of the checks one after the other
\* would have made
DecisionsSerial ==
    \A u \in Users : \A i \in 1..Len(rate_log[u]) :
        LET found == Len(ReplayedWindow(u, i))
        IN  IF found >= rate_limit
            THEN rate_log[u][i].verdict = "deny" /\ rate_log[u][i].size = found
            ELSE rate_log[u][i].verdict = "pass" /\ rate_log[u][i].size = found + 1

(* C27: in each stage, the rate check, the cooldown check and the spam check,
   all reads and writes of the state of the user for one update, the pruning,
   the decision and the append, overwrite or increment that depends on it,
   happen without a suspension in between and before the first suspension of
   the stage on I/O: at most one update is inside the stages at a time, the
   decisions are those of a serial run, and a task that resumes after sending
   an answer or calling the handler neither changes the state nor sends
   anything but what it had prepared before. *)
C27_DecisionsAtomic ==
    /\ [](Cardinality(InsideStage) <= 1 /\ DecisionsSerial)
    /\ [][\A e \in Worked :
            e \in Suspended =>
                /\ UNCHANGED mw
                /\ updates'[e].sent \in {updates[e].sent} \cup
                      {Append(updates[e].sent, updates[e].pending[i]) :
                          i \in 1..Len(updates[e].pending)}]_vars

\* two updates of one user are suspended at the same time, one on its denial
\* being sent and one on the handler, after the three stages have decided on
\* both
C27_Witness ==
    \E e \in Suspended, f \in Suspended :
        /\ e # f
        /\ updates[e].user = updates[f].user
        /\ updates[e].pc = "answer"
        /\ updates[f].pc = "handler"
        /\ Checked(e, "AntiSpam") /\ Checked(e, "Throttling")
        /\ Checked(f, "CommandThrottling")

\* the rate checks of user u before the i-th that admitted the update
AdmittedBefore(u, i) == {j \in Admissions(u) : j < i}

(* C31: a rate-limit denial is never permanent: whatever was admitted and
   denied before, once more than 60 seconds have passed since the last
   admitted update of a user, the next update of that user passes the rate
   check, however many attempts were denied in between. *)
C31_DenialNeverPermanent ==
    \A u \in Users : \A i \in 1..Len(rate_log[u]) :
        (/\ AdmittedBefore(u, i) # {}
         /\ \A j \in AdmittedBefore(u, i) :
               rate_log[u][i].at - rate_log[u][j].at > Sec(Window))
            => rate_log[u][i].verdict = "pass"

\* two attempts were denied, the later one half a second before the window of
\* the last admitted update ended, and the update sent 61 seconds after that
\* admission passed
C31_Witness ==
    \E u \in Users : \E i \in Admissions(u) :
        /\ AdmittedBefore(u, i) # {}
        /\ \A j \in AdmittedBefore(u, i) :
              rate_log[u][i].at - rate_log[u][j].at > Sec(Window)
        /\ Cardinality({d \in Denials(u) :
                          /\ d < i
                          /\ \A j \in AdmittedBefore(u, i) : j < d}) >= 2
        /\ \E d \in Denials(u) : d < i /\ rate_log[u][i].at - rate_log[u][d].at < Sec(Window)

\* the admitted messages and taps whose handler has raised
FailedInHandler ==
    {e \in 1..Len(updates) :
        /\ updates[e].handled >= 1
        /\ updates[e].pc \in {"error_answer", "raised"}
        /\ updates[e].kind \in {"message", "callback_query"}}

\* the generic failure response for update e
FailureResponse(e) ==
    Response(IF updates[e].kind = "message" THEN "message.answer" ELSE "callback_query.answer",
             "Error", 0)

\* one generic failure response, and nothing else, goes out for each of them
OneFailureResponse ==
    \A e \in FailedInHandler :
        IF updates[e].pc = "error_answer"
        THEN updates[e].sent = <<>> /\ updates[e].pending = Some(FailureResponse(e))
        ELSE updates[e].sent = <<FailureResponse(e)>> /\ updates[e].pending = Nothing

(* C32: when the protected handler raises for an admitted message or tap,
   exactly one generic failure response is sent to the user, and the handling
   of the failure changes no per-user state of any user: no window, cooldown
   entry, content history or violation counter. *)
C32_HandlerFailureAnswered ==
    /\ []OneFailureResponse
    /\ [][(\E e \in Worked : updates[e].pc \in {"handler", "error_answer"})
            => UNCHANGED <<user_timestamps, user_warnings, user_last_command,
                           user_message_history>>]_vars

\* the handler has raised for an admitted tap, its failure response has gone
\* out, and the window of the user is as the admission left it
C32_Witness ==
    \E e \in FailedInHandler :
        /\ updates[e].kind = "callback_query"
        /\ updates[e].pc = "raised"
        /\ updates[e].sent = <<FailureResponse(e)>>
        /\ user_timestamps[updates[e].user] = <<CheckOf(e, "Throttling").at>>

\* two texts differ at most in the case of their letters and in whitespace at
\* their ends
SameContent(a, b) == Lower(Strip(a)) = Lower(Strip(b))

\* the earlier messages of the user of e that the spam check let through and
\* that have the content of e
Repeats(e) ==
    {f \in 1..(e - 1) :
        /\ updates[f].user = updates[e].user
        /\ Filed(f)
        /\ SameContent(updates[f].text[1], updates[e].text[1])}

(* C33: the spam check compares contents after normalization: texts of one
   user that differ only in the case of letters or in leading or trailing
   whitespace count as the same content, and texts that still differ once
   lowercased and trimmed never count toward each other: within 60 seconds a
   message is denied exactly when 4 earlier messages of the same content were
   let through, whatever other contents were sent. *)
C33_ComparedAfterNormalization ==
    /\ \A e \in 1..Len(updates) :
          Checked(e, "AntiSpam") =>
              (CheckOf(e, "AntiSpam").verdict = "deny" <=> Cardinality(Repeats(e)) >= 4)
    /\ \A u \in Users : \A i \in 1..Len(user_message_history[u]) :
          \E e \in 1..Len(updates) :
              /\ Filed(e)
              /\ user_message_history[u][i][1] = Lower(Strip(updates[e].text[1]))

\* four messages of one content in two spellings, which differ in the case of
\* letters inside and outside ASCII and in the whitespace at their ends, and
\* one of another content were let through, and the fifth of the first
\* content, the sixth message in all, was denied
C33_Witness ==
    \E e \in DeniedBy("AntiSpam") :
        /\ e = 6
        /\ {updates[f].text : f \in Repeats(e)} = {Some(TextEte), Some(TextEteLoud)}
        /\ \E f \in 1..(e - 1) :
              Filed(f) /\ ~SameContent(updates[f].text[1], updates[e].text[1])

\* the last-used entry of user u and command c, if there is one
Entry(u, c) ==
    IF c \in DOMAIN user_last_command[u] THEN Some(user_last_command[u][c]) ELSE Nothing

\* a step in which the cooldown check allows user u the command c
AllowedUse(u, c) ==
    \E e \in Worked :
        /\ updates[e].user = u
        /\ updates[e].pc = "CommandThrottling"
        /\ HasText(updates[e].text)
        /\ CommandOf(updates[e].text[1]) = c
        /\ updates'[e].path[Len(updates'[e].path)] = Step("CommandThrottling", "pass", 0)

(* C34: cooldowns are independent for each pair of user and command: there is
   at most one entry for a pair, and the entry of a pair changes only in a
   step that allows that user that very command, which sets it to the time of
   the use; a use of a command, allowed or denied, never changes the entry of
   the user for another command. *)
C34_EntryPerUserAndCommand ==
    /\ [](\A u \in Keys : DOMAIN user_last_command[u] \subseteq DOMAIN command_cooldowns)
    /\ [][\A u \in Keys : \A c \in DOMAIN command_cooldowns :
            Entry(u, c)' # Entry(u, c) => (AllowedUse(u, c) /\ Entry(u, c)' = Some(now))]_vars

\* a user has used /start and later /help, and was then denied /start: the
\* two entries stand at the times of the two uses
C34_Witness ==
    \E u \in Users :
        /\ Entry(u, CmdStart) # Nothing /\ Entry(u, CmdHelp) # Nothing
        /\ Entry(u, CmdStart)[1] < Entry(u, CmdHelp)[1]
        /\ \E e \in DeniedBy("CommandThrottling") :
              /\ updates[e].user = u
              /\ CommandOf(updates[e].text[1]) = CmdStart
              /\ CheckOf(e, "CommandThrottling").at >= Entry(u, CmdHelp)[1]

\* the update was tracked by the activity stage
Tracked(e) ==
    \E i \in 1..Len(updates[e].path) :
        updates[e].path[i].stage = "UserActivity" /\ updates[e].path[i].verdict = "pass"

\* the time at which the activity stage saw update e
TrackedAt(e) ==
    updates[e].path[CHOOSE i \in 1..Len(updates[e].path) :
                        updates[e].path[i].stage = "UserActivity"].at

\* the tracked updates of the user of e before e
TrackedBefore(e) ==
    {f \in 1..(e - 1) : updates[f].user = updates[e].user /\ Tracked(f)}

(* C35: the activity stage detects a returning user: the entry "returned after
   inactivity" is logged for an update exactly when the update arrives more
   than 1 hour after the previous tracked update of its user; it is not logged
   when the gap is 1 hour or less, nor for the first update of a user. *)
C35_ReturningUserLogged ==
    \A e \in 1..Len(updates) :
        Tracked(e) =>
            (updates[e].returned <=>
                /\ TrackedBefore(e) # {}
                /\ \A f \in TrackedBefore(e) : TrackedAt(e) - TrackedAt(f) > Sec(60 * 60))

\* the ceiling the limiter was constructed for: the one given, or the default
\* of the settings when none was given
CeilingGiven ==
    IF workload.rate_limit = Nothing THEN 30 ELSE workload.rate_limit[1]

(* C36: the ceiling given at construction is the one enforced: for every
   integer n >= 0 a limiter constructed with rate_limit = n denies an update
   exactly when the pruned window of the user already holds n or more
   instants, so that n = 0 denies every update of an identified user; the
   default 30 of the settings is used only when no ceiling is given. *)
C36_GivenCeilingEnforced ==
    \A u \in Users : \A i \in 1..Len(rate_log[u]) :
        rate_log[u][i].verdict = "deny" <=> Len(ReplayedWindow(u, i)) >= CeilingGiven

=============================================================================
